---- MODULE Spec2Model ----
(***************************************************************************)
(* A model of julia-rs: the generic value handle generated by the          *)
(* simple_jlvalue macro (api/value.rs), and the exception bridge           *)
(* (api/exception.rs, the jl_catch macro of api/mod.rs) with wrapper       *)
(* operations that use it.                                                 *)
(*                                                                         *)
(* A handle is  Rc<Mutex<NonNull<T>>>.  The model keeps one record per     *)
(* reference-counted cell (the Rc allocation): its strong count (the       *)
(* number of handles that own it; the clones of one handle are             *)
(* interchangeable), the mutex's poison flag and the wrapped pointer.      *)
(***************************************************************************)
EXTENDS Integers, FiniteSets, Sequences

\* ------------------------------------------------------------------ bounds
\* Cells alive at once, owners of one cell, distinct non-null addresses
\* handed to the constructors, and handle types enumerated.
MaxCells == 1
MaxOwners == 2
MaxPtr == 2
MaxTypes == 2
\* Julia controllers alive at once, and the exit statuses 0..MaxStatus.
MaxJulia == 2
MaxStatus == 1
\* Host values boxed: the integers -MaxVal..MaxVal (0..MaxVal for the
\* unsigned types, the characters and the floats).
MaxVal == 1
\* The values 0..MaxGcState of the thread's state byte and of the state
\* arguments.
MaxGcState == 3
\* The small type tags 0..MaxTagId and as many types named by address.
MaxTagId == 4
\* Objects on the guest's heap.
MaxObj == 2
\* Fields (and internal pointers) of a layout, and the contents a layout of
\* one shape is filled with.
MaxFields == 3
MaxVariant == 2
\* Stack slots a GC frame can be put in, and pushes not popped yet.
MaxFrames == 2
MaxDepth == 2
\* Elements of a simple vector.
MaxSvec == 2

NULL == 0
\* JL_GC_STATE_SAFE of the runtime's header.
JL_GC_STATE_SAFE == 2
GcStates == 0..MaxGcState

\* jl_small_typeof_tags_jl_max_tags, the bytes of a pointer
\* (size_of::<*const jl_datatype_t>()) and of the low bits of a header word
\* that are not part of the tag.
jl_max_tags == 64
PtrBytes == 8
TagUnit == 16

\* jl_small_typeof_tags_jl_simplevector_tag of the runtime's header.
jl_simplevector_tag == 9

\* The addresses of the types: SmallType(k) for the small tag k, FullType(k)
\* for a type without a small tag; both lie above the tags.
SmallType(k) == (jl_max_tags + k) * TagUnit
FullType(k) == (2 * jl_max_tags + k) * TagUnit
Ptrs == 1..MaxPtr
SlotIds == 1..MaxCells

\* The handle types the jlvalues macro is instantiated for (value.rs 230-233,
\* function.rs 9-11, sym.rs 16-18, datatype.rs 33-39, task.rs 5-7); the
\* generated code is the same for each.
TypeNames ==
    <<"Value", "Function", "Symbol", "Expr", "Datatype", "Type", "Union",
      "UnionAll", "Tuple", "Task">>
HandleTypes ==
    {TypeNames[((i - 1) % Len(TypeNames)) + 1] : i \in 1..MaxTypes}

VARIABLES slot, pending, ret, initialized, ctl, gc_state, hdr, remset,
          gcstack, frames, pushed, svec

vars ==
    <<slot, pending, ret, initialized, ctl, gc_state, hdr, remset,
      gcstack, frames, pushed, svec>>

\* The runtime's initialized flag and the Julia controllers of the host.
runtime == <<initialized, ctl>>
\* The memory julia-sys reads and writes by itself: the thread's gc_state
\* byte; the header words of the objects and the collector's remembered set;
\* the task's gcstack, the stack slots of the frames and (not a part of the
\* program) the gcstack values at the pushes that are not popped yet; a
\* simple vector.
heapvars == <<hdr, remset>>
stackvars == <<gcstack, frames, pushed>>
lowlevel == <<gc_state, hdr, remset, gcstack, frames, pushed, svec>>
\* What the wrappers of julia-rs leave alone, and what julia-sys leaves alone.
others == <<runtime, lowlevel>>
wrappers == <<slot, pending, runtime>>

\* ------------------------------------------------------- the handle's cell
\* A cell no handle owns (not allocated).  checked and viewed are not fields
\* of the program: checked records that the cell was made by the checked
\* constructor, viewed that a caller still uses a raw pointer lock gave it.
FreeSlot ==
    [live |-> FALSE, ty |-> "none", ptr |-> NULL, poisoned |-> FALSE,
     strong |-> 0, checked |-> FALSE, viewed |-> FALSE]

\* A Result as the caller of an operation sees it: Ok or Err, the error, the
\* kind of the exception an UnhandledException carries, and the pointer the
\* returned handle (or the exception's handle) wraps.
NoOut == [res |-> "none", err |-> "none", kind |-> "none", ptr |-> NULL]

\* Option<i32>: None, and Some(status).
None == [some |-> FALSE, status |-> 0]
Some(st) == [some |-> TRUE, status |-> st]

\* The result of the last operation as its caller sees it (res, err, kind,
\* ptr, s: the cell of the handle returned), with what it was called on
\* (arg: the pointer passed or wrapped, n: the owners of the cell, sty: the
\* type of the source handle, cells: the cells alive, pre: the exception slot,
\* fault: what the foreign call raised, all before the operation returned;
\* raised: a foreign call of the operation raised, calls: the foreign calls it
\* made, blind: those it made while an exception one of its own earlier calls
\* raised was still in the slot, gen: what the generic call returns for the
\* same arguments, stores: the field stores made, inits and hooks: the calls
\* of the runtime's initializer made while it was initialized and the statuses
\* the at-exit hook was run with, c and was: the controller and its at_exit).
NoRet ==
    [op |-> "init", res |-> "none", err |-> "none", kind |-> "none",
     ptr |-> NULL, s |-> 0, ty |-> "none", arg |-> NULL, n |-> 0,
     sty |-> "none", aliased |-> FALSE, orig |-> NULL, hops |-> 0,
     cells |-> 0, pre |-> NULL, fault |-> NULL,
     raised |-> FALSE, blind |-> 0, calls |-> 0, gen |-> NoOut,
     stores |-> 0, inits |-> 0, hooks |-> <<>>, c |-> 0, was |-> None,
     field |-> "none", host |-> "none", val |-> 0, boxedas |-> "none",
     boxedval |-> 0, wasinit |-> FALSE, origin |-> "none",
     touched |-> FALSE, state |-> 0, old |-> 0, before |-> 0, out |-> 0,
     ev |-> <<>>, parent |-> 0, child |-> 0, pgc |-> 0, cgc |-> 0,
     np |-> 0, queued |-> <<>>, flag |-> 0, i |-> 0, nf |-> 0,
     variant |-> 0, checks |-> FALSE, locks |-> <<>>, word |-> <<>>]

\* A process that aborted runs nothing more.
Running == ret.res # "Abort"

\* The controllers the host holds; NoJulia: not constructed, or dropped.
CtlIds == 1..MaxJulia
\* origin and touched are not fields of the program: the constructor that made
\* the controller, and whether at_exit was called on it.
NoJulia ==
    [live |-> FALSE, at_exit |-> None, origin |-> "none", touched |-> FALSE]

LiveSlots == {s \in SlotIds : slot[s].live}
FreeSlots == {s \in SlotIds : ~slot[s].live}
Least(S) == CHOOSE x \in S : \A y \in S : x <= y

\* new_unchecked: Rc::new(Mutex::new(NonNull::new_unchecked(p))).
new_unchecked(ty, p) ==
    [live |-> TRUE, ty |-> ty, ptr |-> p, poisoned |-> FALSE,
     strong |-> 1, checked |-> FALSE, viewed |-> FALSE]

new_nocheck(ty, p) ==
    [res |-> "Ok", err |-> "none",
     cell |-> [new_unchecked(ty, p) EXCEPT !.checked = TRUE]]

\* new: the null check, then new_unchecked.
new(ty, p) ==
    IF p = NULL
    THEN [res |-> "Err", err |-> "NullPointer", cell |-> FreeSlot]
    ELSE [res |-> "Ok", err |-> "none",
          cell |-> [new_unchecked(ty, p) EXCEPT !.checked = TRUE]]

lock_guarded(c) ==
    IF c.poisoned
    THEN [res |-> "Err", err |-> "PoisonError", ptr |-> NULL, guard |-> FALSE]
    ELSE [res |-> "Ok", err |-> "none", ptr |-> c.ptr, guard |-> TRUE]

lock_null(c) ==
    IF c.poisoned
    THEN [res |-> "Err", err |-> "PoisonError", ptr |-> NULL, guard |-> FALSE]
    ELSE [res |-> "Ok", err |-> "none", ptr |-> NULL, guard |-> FALSE]

\* lock: Mutex::lock, the guard mapped to the raw pointer inside lock itself.
\* The guard is a temporary consumed by that map, so it is dropped before lock
\* returns: the result is a *mut T, and guard says whether a guard is alive
\* in what lock returns.
lock(c) ==
    IF c.poisoned
    THEN [res |-> "Err", err |-> "PoisonError", ptr |-> NULL, guard |-> FALSE]
    ELSE [res |-> "Ok", err |-> "none", ptr |-> c.ptr, guard |-> FALSE]

into_inner_inverted(c) ==
    IF c.strong = 1
    THEN [res |-> "Err", err |-> "ResourceInUse", ptr |-> NULL]
    ELSE IF c.poisoned
         THEN [res |-> "Err", err |-> "PoisonError", ptr |-> NULL]
         ELSE [res |-> "Ok", err |-> "none", ptr |-> c.ptr]

into_inner_nocount(c) ==
    IF c.poisoned
    THEN [res |-> "Err", err |-> "PoisonError", ptr |-> NULL]
    ELSE [res |-> "Ok", err |-> "none", ptr |-> c.ptr]

\* into_inner: Rc::try_unwrap (Err(rc) unless the strong count is 1, turned
\* into ResourceInUse by From<Rc<T>>), then Mutex::into_inner.
into_inner(c) ==
    IF c.strong # 1
    THEN [res |-> "Err", err |-> "ResourceInUse", ptr |-> NULL]
    ELSE IF c.poisoned
         THEN [res |-> "Err", err |-> "PoisonError", ptr |-> NULL]
         ELSE [res |-> "Ok", err |-> "none", ptr |-> c.ptr]

\* Value::is_ok: !Mutex::is_poisoned.
is_ok(c) == ~c.poisoned

rc_drop_eager(c) == FreeSlot

\* Dropping one owner of the Rc: the cell is released with the last one.
rc_drop(c) ==
    IF c.strong = 1 THEN FreeSlot ELSE [c EXCEPT !.strong = c.strong - 1]

\* Rc::clone: one more owner of the same cell.
rc_clone(c) == [c EXCEPT !.strong = c.strong + 1]

\* ------------------------------------------------------- handle operations
Init ==
    /\ slot = [s \in SlotIds |-> FreeSlot]
    /\ pending = NULL
    /\ ret = NoRet
    /\ initialized = FALSE
    /\ ctl = [c \in CtlIds |-> NoJulia]
    /\ gc_state = 0
    /\ hdr = [o \in 1..MaxObj |-> FullType(o)]
    /\ remset = <<>>
    /\ gcstack = NULL
    /\ frames = [a \in 1..MaxFrames |-> [nroots |-> 0, prev |-> NULL]]
    /\ pushed = <<>>
    /\ svec = [header |-> jl_simplevector_tag * TagUnit,
               elems |-> [j \in 1..MaxSvec |-> NULL]]

\* T::new(p), for each handle type.
New(ty, p) ==
    /\ Running
    /\ UNCHANGED others
    /\ FreeSlots # {}
    /\ LET r == new(ty, p)
           s == Least(FreeSlots)
           out == [NoRet EXCEPT !.op = "new", !.ty = ty, !.arg = p,
                                !.cells = Cardinality(LiveSlots),
                                !.res = r.res, !.err = r.err]
       IN IF r.res = "Ok"
          THEN /\ slot' = [slot EXCEPT ![s] = r.cell]
               /\ ret' = [out EXCEPT !.s = s]
          ELSE /\ ret' = out
               /\ UNCHANGED slot
    /\ UNCHANGED pending

\* T::new_unchecked(p).  With a null p the call is undefined behaviour
\* (NonNull::new_unchecked): the build either keeps the null pointer in the
\* cell or, with the library's precondition checks compiled in, aborts.
NewUnchecked(ty, p) ==
    /\ Running
    /\ UNCHANGED others
    /\ FreeSlots # {}
    /\ LET s == Least(FreeSlots)
           out == [NoRet EXCEPT !.op = "new_unchecked", !.ty = ty, !.arg = p,
                                !.res = "Ok"]
       IN \/ /\ slot' = [slot EXCEPT ![s] = new_unchecked(ty, p)]
             /\ ret' = [out EXCEPT !.s = s]
          \/ /\ p = NULL
             /\ ret' = [out EXCEPT !.res = "Abort"]
             /\ UNCHANGED slot
    /\ UNCHANGED pending

\* h.clone() on a handle of cell s (derive(Clone) on the handle: Rc::clone).
Clone(s) ==
    /\ Running
    /\ UNCHANGED others
    /\ slot[s].live
    /\ slot[s].strong < MaxOwners
    /\ slot' = [slot EXCEPT ![s] = rc_clone(slot[s])]
    /\ ret' = [NoRet EXCEPT !.op = "clone", !.res = "Ok", !.s = s,
                            !.ty = slot[s].ty, !.arg = slot[s].ptr,
                            !.n = slot[s].strong]
    /\ UNCHANGED pending

\* h.lock() on a handle of cell s.  keep: the caller goes on using the raw
\* pointer it was given.
Lock(s, keep) ==
    /\ Running
    /\ UNCHANGED others
    /\ slot[s].live
    /\ LET r == lock(slot[s])
       IN /\ ret' = [NoRet EXCEPT !.op = "lock", !.res = r.res, !.err = r.err,
                                  !.ptr = r.ptr, !.s = s, !.ty = slot[s].ty,
                                  !.arg = slot[s].ptr, !.n = slot[s].strong,
                                  !.aliased = slot[s].viewed /\ r.res = "Ok"]
          /\ slot' = [slot EXCEPT ![s].viewed = @ \/ (keep /\ r.res = "Ok")]
    /\ UNCHANGED pending

\* The caller of lock is done with the raw pointer.
EndUse(s) ==
    /\ Running
    /\ UNCHANGED others
    /\ slot[s].live /\ slot[s].viewed
    /\ slot' = [slot EXCEPT ![s].viewed = FALSE]
    /\ ret' = [NoRet EXCEPT !.op = "end_use", !.s = s]
    /\ UNCHANGED pending

\* drop(h) on a handle of cell s.
Drop(s) ==
    /\ Running
    /\ UNCHANGED others
    /\ slot[s].live
    /\ slot' = [slot EXCEPT ![s] = rc_drop(slot[s])]
    /\ ret' = [NoRet EXCEPT !.op = "drop", !.s = s, !.ty = slot[s].ty,
                            !.arg = slot[s].ptr, !.n = slot[s].strong]
    /\ UNCHANGED pending

\* h.into_inner() on a handle of cell s: the handle is consumed whatever the
\* result (on ResourceInUse the Rc handed back by try_unwrap is dropped by
\* the conversion to Error).
IntoInner(s) ==
    /\ Running
    /\ UNCHANGED others
    /\ slot[s].live
    /\ LET r == into_inner(slot[s])
       IN /\ slot' = [slot EXCEPT ![s] = rc_drop(slot[s])]
          /\ ret' = [NoRet EXCEPT !.op = "into_inner", !.res = r.res,
                                  !.err = r.err, !.ptr = r.ptr, !.s = s,
                                  !.ty = slot[s].ty, !.arg = slot[s].ptr,
                                  !.n = slot[s].strong]
    /\ UNCHANGED pending

\* from_value and into_value have the same body: into_inner()? on the source,
\* the pointer cast, then new of the target type.  orig, hops: the pointer and
\* the length of a chain of conversions that leads back to the type it
\* started from.
Convert(op, ty, s) ==
    /\ Running
    /\ UNCHANGED others
    /\ slot[s].live
    /\ LET r == into_inner(slot[s])
           afterDrop == [slot EXCEPT ![s] = rc_drop(slot[s])]
           free == {x \in SlotIds : ~afterDrop[x].live}
           n == new(ty, r.ptr)
           back == /\ ret.op \in {"from_value", "into_value"}
                   /\ ret.res = "Ok" /\ ret.s = s /\ ret.sty = ty
           out == [NoRet EXCEPT !.op = op, !.ty = ty, !.sty = slot[s].ty,
                                !.arg = slot[s].ptr, !.n = slot[s].strong,
                                !.cells = Cardinality(LiveSlots),
                                !.orig = IF back THEN ret.orig ELSE slot[s].ptr,
                                !.hops = IF back THEN 2 ELSE 1]
       IN IF r.res = "Err"
          THEN /\ slot' = afterDrop
               /\ ret' = [out EXCEPT !.res = "Err", !.err = r.err]
          ELSE IF n.res = "Err"
               THEN /\ slot' = afterDrop
                    /\ ret' = [out EXCEPT !.res = "Err", !.err = n.err]
               ELSE /\ slot' = [afterDrop EXCEPT ![Least(free)] = n.cell]
                    /\ ret' = [out EXCEPT !.res = "Ok", !.s = Least(free)]
    /\ UNCHANGED pending

\* Target::from_value(h).
FromValue(ty, s) == Convert("from_value", ty, s)

\* h.into_value::<_, Target>().
IntoValue(s, ty) == Convert("into_value", ty, s)

\* Value::map(f): f runs on the pointer lock returned.  panics: f panics, and
\* the panic is caught by the caller (the handles are not Send, so they live
\* on only in the thread that panicked).  The mutex is poisoned if a guard is
\* alive while f unwinds.
Map(s, panics) ==
    /\ Running
    /\ UNCHANGED others
    /\ slot[s].live /\ slot[s].ty = "Value"
    /\ LET r == lock(slot[s])
           out == [NoRet EXCEPT !.op = "map", !.s = s, !.ty = slot[s].ty,
                                !.arg = slot[s].ptr, !.n = slot[s].strong]
       IN IF r.res = "Err"
          THEN /\ ret' = [out EXCEPT !.res = "Err", !.err = r.err]
               /\ UNCHANGED slot
          ELSE IF panics
               THEN /\ ret' = [out EXCEPT !.res = "Panic"]
                    /\ slot' = [slot EXCEPT ![s].poisoned = @ \/ r.guard]
               ELSE /\ ret' = [out EXCEPT !.res = "Ok", !.ptr = r.ptr]
                    /\ UNCHANGED slot
    /\ UNCHANGED pending

\* Value::is_ok().
IsOk(s) ==
    /\ Running
    /\ UNCHANGED others
    /\ slot[s].live /\ slot[s].ty = "Value"
    /\ ret' = [NoRet EXCEPT !.op = "is_ok", !.s = s, !.ty = slot[s].ty,
                            !.res = IF is_ok(slot[s]) THEN "True" ELSE "False"]
    /\ UNCHANGED <<slot, pending>>

Next ==
    \/ \E ty \in HandleTypes, p \in Ptrs \cup {NULL} : New(ty, p)
    \/ \E ty \in HandleTypes, p \in Ptrs \cup {NULL} : NewUnchecked(ty, p)
    \/ \E s \in SlotIds : Clone(s)
    \/ \E s \in SlotIds, keep \in BOOLEAN : Lock(s, keep)
    \/ \E s \in SlotIds : EndUse(s)
    \/ \E s \in SlotIds : Drop(s)
    \/ \E s \in SlotIds : IntoInner(s)
    \/ \E ty \in HandleTypes, s \in SlotIds : FromValue(ty, s)
    \/ \E ty \in HandleTypes, s \in SlotIds : IntoValue(s, ty)
    \/ \E s \in SlotIds, panics \in BOOLEAN : Map(s, panics)
    \/ \E s \in SlotIds : IsOk(s)

Spec == Init /\ [][Next]_vars

\* -------------------------------------------------------- exception bridge
\* The exception objects of the runtime's heap, at addresses 1..Len: the
\* name jl_typeof_str gives for each.  InvalidUtf8Name is the name of a type
\* whose name is not valid UTF-8 (a Julia symbol is any byte string without a
\* NUL); the last two differ from a name of the table by case and by a
\* suffix.
InvalidUtf8Name == "<bytes that are not UTF-8>"
ExcTypeNames ==
    <<"ParseError", "UndefVarError", "MyError", InvalidUtf8Name,
      "ArgumentError", "BoundsError", "CompositeException", "DivideError",
      "DomainError", "EOFError", "ErrorException", "InexactError",
      "InitError", "InterruptException", "InvalidStateException", "KeyError",
      "LoadError", "OutOfMemoryError", "ReadOnlyMemoryError",
      "RemoteException", "MethodError", "OverflowError", "SystemError",
      "TypeError", "UndefRefError", "UnicodeError", "argumenterror",
      "ParseErrors">>
HeapObjs == 1..Len(ExcTypeNames)

\* jl_typeof_str(p): the C string naming the type of the object at p.
jl_typeof_str(p) == ExcTypeNames[((p - 1) % Len(ExcTypeNames)) + 1]

\* The exceptions the foreign calls of the operations below raise.
ExcObjs ==
    {p \in HeapObjs :
        jl_typeof_str(p) \in {"ParseError", "UndefVarError", "MyError",
                              InvalidUtf8Name}}

\* <*const c_char as TryIntoString>::try_into_string: CStr to an owned
\* String, an error when the bytes are not UTF-8.
try_into_string(cstr) ==
    IF cstr = InvalidUtf8Name
    THEN [res |-> "Err", err |-> "IntoStringError", str |-> ""]
    ELSE [res |-> "Ok", err |-> "none", str |-> cstr]

\* Exception::with_value: the variant for a type name.
with_value_kind(name) ==
    CASE name = "ArgumentError" -> "Argument"
      [] name = "BoundsError" -> "Bounds"
      [] name = "CompositeException" -> "Composite"
      [] name = "DivideError" -> "Divide"
      [] name = "DomainError" -> "Domain"
      [] name = "EOFError" -> "EOF"
      [] name = "ErrorException" -> "Error"
      [] name = "InexactError" -> "Inexact"
      [] name = "InitError" -> "Init"
      [] name = "InterruptException" -> "Interrupt"
      [] name = "InvalidStateException" -> "InvalidState"
      [] name = "KeyError" -> "Key"
      [] name = "LoadError" -> "Load"
      [] name = "OutOfMemoryError" -> "OutOfMemory"
      [] name = "ReadOnlyMemoryError" -> "ReadOnlyMemory"
      [] name = "RemoteException" -> "Remote"
      [] name = "MethodError" -> "Method"
      [] name = "OverflowError" -> "Overflow"
      [] name = "ParseError" -> "Parse"
      [] name = "SystemError" -> "System"
      [] name = "TypeError" -> "Type"
      [] name = "UndefRefError" -> "UndefRef"
      [] name = "UndefVarError" -> "UndefVar"
      [] name = "UnicodeError" -> "Unicode"
      [] OTHER -> "Unknown"

\* Exception::occurred on the exception slot e.
occurred(e) == e # NULL

RECURSIVE catch_result(_)

\* JlValue::typename on a handle that wraps p, called with the exception slot
\* e: jl_typeof_str, then jl_catch!() (a pending exception is returned as the
\* error), then try_into_string.
typename(p, e) ==
    LET c == catch_result(e)
    IN IF c.res = "Some"
       THEN [res |-> "Err", err |-> "UnhandledException", str |-> ""]
       ELSE try_into_string(jl_typeof_str(p))

\* What Exception::catch returns for the exception slot e, which it clears:
\* Value::new(raw).and_then(with_value).ok().  with_value asks the typename
\* of the value (the slot is clear by then) and fails when typename fails;
\* ok() turns either failure into None.
catch_result(e) ==
    IF new("Value", e).res = "Err"
    THEN [res |-> "None", kind |-> "none", ptr |-> NULL]
    ELSE LET t == typename(e, NULL)
         IN IF t.res = "Err"
            THEN [res |-> "None", kind |-> "none", ptr |-> NULL]
            ELSE [res |-> "Some", kind |-> with_value_kind(t.str), ptr |-> e]

\* The exception slot after a foreign call that raised fault (NULL: none).
AfterCall(e, fault) == IF fault # NULL THEN fault ELSE e

\* A raw foreign call made by the host itself that raises e and is followed
\* by no probe (the julia-sys level).
RawCall(e) ==
    /\ Running
    /\ UNCHANGED others
    /\ pending' = e
    /\ ret' = [NoRet EXCEPT !.op = "raw_call", !.fault = e]
    /\ UNCHANGED slot

\* Exception::occurred().
Occurred ==
    /\ Running
    /\ UNCHANGED others
    /\ ret' = [NoRet EXCEPT !.op = "occurred", !.pre = pending,
                            !.res = IF occurred(pending) THEN "True" ELSE "False"]
    /\ UNCHANGED <<slot, pending>>

\* Exception::catch(): jl_exception_occurred, jl_exception_clear, then the
\* classification.  The exception returned owns the Value handle of the
\* exception object.
Catch ==
    /\ Running
    /\ UNCHANGED others
    /\ LET c == catch_result(pending)
           out == [NoRet EXCEPT !.op = "catch", !.pre = pending,
                                !.res = c.res, !.kind = c.kind, !.ptr = c.ptr]
       IN /\ pending' = NULL
          /\ IF c.res = "Some"
             THEN /\ FreeSlots # {}
                  /\ slot' = [slot EXCEPT ![Least(FreeSlots)] = new("Value", c.ptr).cell]
                  /\ ret' = [out EXCEPT !.s = Least(FreeSlots)]
             ELSE /\ ret' = out
                  /\ UNCHANGED slot

\* Julia::eval_string: jl_eval_string returns p and raises fault (NULL:
\* nothing); jl_catch!(); Value::new(p) with NullPointer mapped to EvalError.
EvalString(p, fault) ==
    /\ Running
    /\ UNCHANGED others
    /\ LET c == catch_result(AfterCall(pending, fault))
           n == new("Value", p)
           out == [NoRet EXCEPT !.op = "eval_string", !.pre = pending,
                                !.fault = fault, !.arg = p]
       IN /\ pending' = NULL
          /\ IF c.res = "Some"
             THEN /\ FreeSlots # {}
                  /\ slot' = [slot EXCEPT ![Least(FreeSlots)] = new("Value", c.ptr).cell]
                  /\ ret' = [out EXCEPT !.res = "Err", !.err = "UnhandledException",
                                        !.kind = c.kind, !.ptr = c.ptr,
                                        !.s = Least(FreeSlots)]
             ELSE IF n.res = "Err"
                  THEN /\ ret' = [out EXCEPT !.res = "Err", !.err = "EvalError"]
                       /\ UNCHANGED slot
                  ELSE /\ FreeSlots # {}
                       /\ slot' = [slot EXCEPT ![Least(FreeSlots)] = n.cell]
                       /\ ret' = [out EXCEPT !.res = "Ok", !.ptr = p,
                                             !.s = Least(FreeSlots)]

\* Gc::collect: jl_gc_collect raises fault (NULL: nothing); jl_catch!(); Ok(()).
GcCollect(fault) ==
    /\ Running
    /\ UNCHANGED others
    /\ LET c == catch_result(AfterCall(pending, fault))
           out == [NoRet EXCEPT !.op = "gc_collect", !.pre = pending,
                                !.fault = fault]
       IN /\ pending' = NULL
          /\ IF c.res = "Some"
             THEN /\ FreeSlots # {}
                  /\ slot' = [slot EXCEPT ![Least(FreeSlots)] = new("Value", c.ptr).cell]
                  /\ ret' = [out EXCEPT !.res = "Err", !.err = "UnhandledException",
                                        !.kind = c.kind, !.ptr = c.ptr,
                                        !.s = Least(FreeSlots)]
             ELSE /\ ret' = [out EXCEPT !.res = "Ok"]
                  /\ UNCHANGED slot

NextExc ==
    \/ \E e \in ExcObjs : RawCall(e)
    \/ Occurred
    \/ Catch
    \/ \E p \in Ptrs \cup {NULL}, fault \in ExcObjs \cup {NULL} : EvalString(p, fault)
    \/ \E fault \in ExcObjs \cup {NULL} : GcCollect(fault)
    \/ \E s \in SlotIds : Drop(s)

SpecExc == Init /\ [][NextExc]_vars

\* ----------------------------------------------------------- classification
\* Exception::with_value on the Value handle of cell c, with e in the
\* exception slot: value.typename()? (the lock, jl_typeof_str, jl_catch!(),
\* try_into_string), then the match on the name.  The variant holds the
\* handle it was given.  When typename fails the error is returned: the
\* exception its probe found in the slot, or the conversion error.
with_value(c, e) ==
    IF lock(c).res = "Err"
    THEN [res |-> "Err", err |-> lock(c).err, kind |-> "none", ptr |-> NULL,
          pend |-> e]
    ELSE LET t == typename(lock(c).ptr, e)
             x == catch_result(e)
         IN IF t.res = "Err"
            THEN [res |-> "Err", err |-> t.err,
                  kind |-> IF x.res = "Some" THEN x.kind ELSE "none",
                  ptr |-> IF x.res = "Some" THEN x.ptr ELSE NULL,
                  pend |-> NULL]
            ELSE [res |-> "Ok", err |-> "none",
                  kind |-> with_value_kind(t.str), ptr |-> c.ptr,
                  pend |-> NULL]

\* Exception::with_value(value) on the sole handle of cell s.  On Ok the
\* exception returned owns that handle; on Err the handle is dropped, and an
\* UnhandledException owns a new handle of the exception found in the slot.
WithValue(s) ==
    /\ Running
    /\ UNCHANGED others
    /\ slot[s].live /\ slot[s].ty = "Value" /\ slot[s].strong = 1
    /\ LET r == with_value(slot[s], pending)
           out == [NoRet EXCEPT !.op = "with_value", !.pre = pending,
                                !.arg = slot[s].ptr, !.n = slot[s].strong,
                                !.res = r.res, !.err = r.err, !.kind = r.kind,
                                !.ptr = r.ptr]
       IN /\ pending' = r.pend
          /\ IF r.res = "Ok"
             THEN /\ ret' = [out EXCEPT !.s = s]
                  /\ UNCHANGED slot
             ELSE IF r.err = "UnhandledException"
                  THEN /\ slot' = [slot EXCEPT ![s] = new("Value", r.ptr).cell]
                       /\ ret' = [out EXCEPT !.s = s]
                  ELSE /\ slot' = [slot EXCEPT ![s] = rc_drop(slot[s])]
                       /\ ret' = out

NextClassify ==
    \/ \E p \in HeapObjs : New("Value", p)
    \/ \E s \in SlotIds : WithValue(s)
    \/ \E e \in ExcObjs : RawCall(e)
    \/ Catch
    \/ \E s \in SlotIds : Drop(s)

SpecClassify == Init /\ [][NextClassify]_vars

\* ------------------------------------------------------- wrapper operations
\* Arguments an operation borrows from its caller beyond the handles of the
\* table: the handles of a type that the checked constructor makes.
Handles(ty) == {new(ty, p).cell : p \in Ptrs}

\* Parameters of Type::new_array at once.
MaxParams == 2

Faults == ExcObjs \cup {NULL}

\* The Result of jl_catch!() followed by the closing expression of a wrapper:
\* Err(UnhandledException) when the probe finds an exception, else fin.
after_probe(c, fin) ==
    IF c.res = "Some"
    THEN [res |-> "Err", err |-> "UnhandledException", kind |-> c.kind,
          ptr |-> c.ptr]
    ELSE fin

\* T::new(p) as the closing expression: the handle, or the error nullerr in
\* place of NullPointer (map_err).
closing_new(ty, p, nullerr) ==
    IF new(ty, p).res = "Err"
    THEN [NoOut EXCEPT !.res = "Err", !.err = nullerr]
    ELSE [NoOut EXCEPT !.res = "Ok", !.ptr = p]

\* An operation returns o to its caller and leaves e in the exception slot.
\* The handle of an Ok of handle type ty, like the Value handle of the
\* exception in an UnhandledException, is a new cell the caller owns.
Deliver(out, o, ty, e) ==
    /\ pending' = e
    /\ LET hty == IF o.err = "UnhandledException" THEN "Value" ELSE ty
       IN IF o.ptr # NULL
          THEN /\ FreeSlots # {}
               /\ slot' = [slot EXCEPT ![Least(FreeSlots)] = new(hty, o.ptr).cell]
               /\ ret' = [out EXCEPT !.res = o.res, !.err = o.err,
                                     !.kind = o.kind, !.ptr = o.ptr,
                                     !.s = Least(FreeSlots)]
          ELSE /\ ret' = [out EXCEPT !.res = o.res, !.err = o.err,
                                     !.kind = o.kind]
               /\ UNCHANGED slot

\* Value::isa and Value::types_equal have the same shape: the two locks, the
\* foreign call (jl_isa, jl_types_equal), Ok of its result.  No probe follows
\* the call: what it raised stays in the slot.
isa(v, d, e, fault) ==
    IF lock(v).res = "Err" THEN [o |-> [NoOut EXCEPT !.res = "Err", !.err = lock(v).err],
                                 pend |-> e, calls |-> 0]
    ELSE IF lock(d).res = "Err"
         THEN [o |-> [NoOut EXCEPT !.res = "Err", !.err = lock(d).err],
               pend |-> e, calls |-> 0]
         ELSE [o |-> [NoOut EXCEPT !.res = "Ok"],
               pend |-> AfterCall(e, fault), calls |-> 1]

types_equal(v, w, e, fault) ==
    IF lock(v).res = "Err" THEN [o |-> [NoOut EXCEPT !.res = "Err", !.err = lock(v).err],
                                 pend |-> e, calls |-> 0]
    ELSE IF lock(w).res = "Err"
         THEN [o |-> [NoOut EXCEPT !.res = "Err", !.err = lock(w).err],
               pend |-> e, calls |-> 0]
         ELSE [o |-> [NoOut EXCEPT !.res = "Ok"],
               pend |-> AfterCall(e, fault), calls |-> 1]

Isa(v, d, fault) ==
    /\ Running
    /\ UNCHANGED others
    /\ LET r == isa(v, d, pending, fault)
       IN Deliver([NoRet EXCEPT !.op = "isa", !.pre = pending, !.fault = fault,
                                !.raised = fault # NULL /\ r.calls > 0,
                                !.calls = r.calls],
                  r.o, "none", r.pend)

TypesEqual(v, w, fault) ==
    /\ Running
    /\ UNCHANGED others
    /\ LET r == types_equal(v, w, pending, fault)
       IN Deliver([NoRet EXCEPT !.op = "types_equal", !.pre = pending,
                                !.fault = fault,
                                !.raised = fault # NULL /\ r.calls > 0,
                                !.calls = r.calls],
                  r.o, "none", r.pend)

\* The locks of a sequence of handles, in order, up to the first that fails.
RECURSIVE lock_all(_)
lock_all(hs) ==
    IF hs = <<>> THEN [res |-> "Ok", err |-> "none"]
    ELSE IF lock(Head(hs)).res = "Err"
         THEN [res |-> "Err", err |-> lock(Head(hs)).err]
         ELSE lock_all(Tail(hs))

\* The element stores of Type::new_array from store i on: jl_arrayset for each
\* parameter, none followed by a probe.  st: the slot, the stores made, and
\* those made with an exception of an earlier store in the slot; store k
\* raises x.
RECURSIVE array_stores(_, _, _, _, _)
array_stores(i, n, st, k, x) ==
    IF i > n THEN st
    ELSE array_stores(i + 1, n,
                      [pend |-> AfterCall(st.pend, IF i = k THEN x ELSE NULL),
                       calls |-> st.calls + 1,
                       blind |-> st.blind + (IF st.pend # NULL THEN 1 ELSE 0)],
                      k, x)

\* Type::new_array: the locks of the parameters and of self,
\* jl_alloc_array_1d (returns a, raises f0), jl_catch!(), the stores, one
\* jl_catch!() after the loop, Array::new.
new_array(t, params, e, a, f0, k, x) ==
    IF lock_all(params).res = "Err"
    THEN [o |-> [NoOut EXCEPT !.res = "Err", !.err = lock_all(params).err],
          pend |-> e, calls |-> 0, blind |-> 0]
    ELSE IF lock(t).res = "Err"
    THEN [o |-> [NoOut EXCEPT !.res = "Err", !.err = lock(t).err],
          pend |-> e, calls |-> 0, blind |-> 0]
    ELSE LET c1 == catch_result(AfterCall(e, f0))
         IN IF c1.res = "Some"
            THEN [o |-> after_probe(c1, NoOut), pend |-> NULL, calls |-> 1,
                  blind |-> 0]
            ELSE LET st == array_stores(1, Len(params),
                                        [pend |-> NULL, calls |-> 1, blind |-> 0],
                                        k, x)
                 IN [o |-> after_probe(catch_result(st.pend),
                                       closing_new("Array", a, "NullPointer")),
                     pend |-> NULL, calls |-> st.calls, blind |-> st.blind]

\* The parameter lists tried: of each length, the handles of the addresses
\* taken in turn.
ParamSeqs ==
    {[i \in 1..n |-> new("Value", ((i - 1) % MaxPtr) + 1).cell] :
        n \in 0..MaxParams}

NewArray(t, params, a, f0, k, x) ==
    /\ Running
    /\ UNCHANGED others
    /\ LET r == new_array(t, params, pending, a, f0, k, x)
       IN Deliver([NoRet EXCEPT !.op = "new_array", !.pre = pending,
                                !.fault = f0, !.n = Len(params),
                                !.raised = r.calls > 0 /\ (f0 # NULL \/ (k > 0 /\ r.calls > 1)),
                                !.calls = r.calls, !.blind = r.blind],
                  r.o, "Array", r.pend)

\* jl_catch!() and the closing expression of Function::call and call0..call3:
\* Value::new(ret).map_err(|_| Error::CallError).
call_closing(e, p, fault) ==
    [o |-> after_probe(catch_result(AfterCall(e, fault)),
                       closing_new("Value", p, "CallError")),
     pend |-> NULL, calls |-> 1]

lock_failed(err, e) ==
    [o |-> [NoOut EXCEPT !.res = "Err", !.err = err], pend |-> e, calls |-> 0]

\* Function::call: the locks of the arguments in order, then the lock of
\* self, jl_call (returns p, raises fault).
call(f, args, e, p, fault) ==
    IF lock_all(args).res = "Err" THEN lock_failed(lock_all(args).err, e)
    ELSE IF lock(f).res = "Err" THEN lock_failed(lock(f).err, e)
    ELSE call_closing(e, p, fault)

call0_evalerror(f, e, p, fault) ==
    IF lock(f).res = "Err" THEN lock_failed(lock(f).err, e)
    ELSE [o |-> after_probe(catch_result(AfterCall(e, fault)),
                            closing_new("Value", p, "EvalError")),
          pend |-> NULL, calls |-> 1]

\* Function::call0 to call3: the lock of self, then the locks of the
\* arguments in order, then jl_call0 to jl_call3.
call0(f, e, p, fault) ==
    IF lock(f).res = "Err" THEN lock_failed(lock(f).err, e)
    ELSE call_closing(e, p, fault)

call1(f, arg1, e, p, fault) ==
    IF lock(f).res = "Err" THEN lock_failed(lock(f).err, e)
    ELSE IF lock(arg1).res = "Err" THEN lock_failed(lock(arg1).err, e)
    ELSE call_closing(e, p, fault)

call2(f, arg1, arg2, e, p, fault) ==
    IF lock(f).res = "Err" THEN lock_failed(lock(f).err, e)
    ELSE IF lock(arg1).res = "Err" THEN lock_failed(lock(arg1).err, e)
    ELSE IF lock(arg2).res = "Err" THEN lock_failed(lock(arg2).err, e)
    ELSE call_closing(e, p, fault)

call3(f, arg1, arg2, arg3, e, p, fault) ==
    IF lock(f).res = "Err" THEN lock_failed(lock(f).err, e)
    ELSE IF lock(arg1).res = "Err" THEN lock_failed(lock(arg1).err, e)
    ELSE IF lock(arg2).res = "Err" THEN lock_failed(lock(arg2).err, e)
    ELSE IF lock(arg3).res = "Err" THEN lock_failed(lock(arg3).err, e)
    ELSE call_closing(e, p, fault)

\* The record of a call for its caller; gen: what the generic call gives for
\* the same handle and arguments when the runtime's dispatch returns and
\* raises the same.
CallRet(op, args, p, fault, r, g) ==
    [NoRet EXCEPT !.op = op, !.pre = pending, !.fault = fault, !.arg = p,
                  !.n = Len(args), !.calls = r.calls,
                  !.raised = fault # NULL /\ r.calls > 0,
                  !.gen = g.o]

Call(f, args, p, fault) ==
    /\ Running
    /\ UNCHANGED others
    /\ LET r == call(f, args, pending, p, fault)
       IN Deliver(CallRet("call", args, p, fault, r, r), r.o, "Value", r.pend)

Call0(f, p, fault) ==
    /\ Running
    /\ UNCHANGED others
    /\ LET r == call0(f, pending, p, fault)
           g == call(f, <<>>, pending, p, fault)
       IN Deliver(CallRet("call0", <<>>, p, fault, r, g), r.o, "Value", r.pend)

Call1(f, arg1, p, fault) ==
    /\ Running
    /\ UNCHANGED others
    /\ LET r == call1(f, arg1, pending, p, fault)
           g == call(f, <<arg1>>, pending, p, fault)
       IN Deliver(CallRet("call1", <<arg1>>, p, fault, r, g), r.o, "Value",
                  r.pend)

Call2(f, arg1, arg2, p, fault) ==
    /\ Running
    /\ UNCHANGED others
    /\ LET r == call2(f, arg1, arg2, pending, p, fault)
           g == call(f, <<arg1, arg2>>, pending, p, fault)
       IN Deliver(CallRet("call2", <<arg1, arg2>>, p, fault, r, g), r.o,
                  "Value", r.pend)

Call3(f, arg1, arg2, arg3, p, fault) ==
    /\ Running
    /\ UNCHANGED others
    /\ LET r == call3(f, arg1, arg2, arg3, pending, p, fault)
           g == call(f, <<arg1, arg2, arg3>>, pending, p, fault)
       IN Deliver(CallRet("call3", <<arg1, arg2, arg3>>, p, fault, r, g), r.o,
                  "Value", r.pend)

\* ------------------------------------------------- fault-raising constructors
Raisers ==
    {"error", "error_format", "exception", "exception_format",
     "too_few_args", "too_many_args", "type_error", "type_error_rt",
     "undefined_var_error", "bounds_error", "bounds_error_v",
     "bounds_error_int", "bounds_error_tuple_int", "bounds_error_ints",
     "eof_error"}

\* The handles a raiser locks (lock().unwrap()) before it raises; the slices
\* of bounds_error_v and bounds_error_tuple_int are taken with one element.
raiser_locks(r) ==
    CASE r \in {"type_error", "type_error_rt", "bounds_error",
                "bounds_error_v"} -> 2
      [] r \in {"exception", "exception_format", "undefined_var_error",
                "bounds_error_int", "bounds_error_tuple_int",
                "bounds_error_ints"} -> 1
      [] OTHER -> 0

jl_throw_returns(handler) == "Return"

\* The runtime's raising entry points (jl_error, jl_exceptionf, jl_type_error,
\* jl_bounds_error, ...), declared diverging: the raise unwinds to the handler
\* of the guest code that called the host function, and with no handler the
\* runtime ends the process.  It does not come back to its caller.
jl_throw(handler) == IF handler THEN "Unwound" ELSE "Abort"

\* A raiser: the locks, unwrapped (a failed one panics), then the raise.
raise(hs, handler) ==
    IF lock_all(hs).res = "Err" THEN "Panic" ELSE jl_throw(handler)

Raise(r, hs, handler) ==
    /\ Running
    /\ UNCHANGED others
    /\ ret' = [NoRet EXCEPT !.op = r, !.res = raise(hs, handler),
                            !.n = Len(hs), !.pre = pending]
    /\ UNCHANGED <<slot, pending>>

\* The handles the operations below borrow from their caller: the pointer a
\* borrowed handle wraps has no part in what the wrapper does with the
\* outcome of the foreign call, so that one handle of a type stands for its
\* handles where a second argument varies.
AHandle(ty) == new(ty, Least(Ptrs)).cell

NextWrap ==
    \/ \E e \in ExcObjs : RawCall(e)
    \/ \E p \in Ptrs \cup {NULL}, fault \in Faults : EvalString(p, fault)
    \/ \E fault \in Faults : GcCollect(fault)
    \/ \E v \in Handles("Value"), fault \in Faults :
           Isa(v, AHandle("Datatype"), fault)
    \/ \E w \in Handles("Value"), fault \in Faults :
           TypesEqual(AHandle("Value"), w, fault)
    \/ \E params \in ParamSeqs, a \in Ptrs, x \in ExcObjs :
           \E pos \in 0..(Len(params) + 1) :
               NewArray(AHandle("Type"), params, a,
                        IF pos = 0 THEN x ELSE NULL,
                        IF pos \in 1..Len(params) THEN pos ELSE 0, x)
    \/ \E args \in ParamSeqs, p \in Ptrs \cup {NULL}, fault \in Faults :
           Call(AHandle("Function"), args, p, fault)
    \/ \E f \in Handles("Function"), p \in Ptrs \cup {NULL}, fault \in Faults :
           Call0(f, p, fault)
    \/ \E a1 \in Handles("Value"), p \in Ptrs \cup {NULL}, fault \in Faults :
           Call1(AHandle("Function"), a1, p, fault)
    \/ \E a2 \in Handles("Value"), p \in Ptrs \cup {NULL}, fault \in Faults :
           Call2(AHandle("Function"), AHandle("Value"), a2, p, fault)
    \/ \E a3 \in Handles("Value"), p \in Ptrs \cup {NULL}, fault \in Faults :
           Call3(AHandle("Function"), AHandle("Value"), AHandle("Value"), a3,
                 p, fault)
    \/ \E r \in Raisers, handler \in BOOLEAN :
           Raise(r, [i \in 1..raiser_locks(r) |-> AHandle("Value")], handler)
    \/ \E s \in SlotIds : Drop(s)

SpecWrap == Init /\ [][NextWrap]_vars

\* ------------------------------------------------------------ field access
\* The field names of the datatype of the value whose fields are read and
\* written (a complex number), and the names asked for.
FieldNames == <<"re", "im">>
AskedNames == {"re", "im", "nosuch"}

\* jl_field_index(dt, fld, err) of the runtime: the index of the field named
\* fld, from 0; for a name that is not a field, -1 when err is 0, and with
\* any other err the runtime raises its no-such-field error in place of
\* returning.
jl_field_index(name, err) ==
    IF \E i \in 1..Len(FieldNames) : FieldNames[i] = name
    THEN [thrown |-> FALSE,
          idx |-> (CHOOSE i \in 1..Len(FieldNames) : FieldNames[i] = name) - 1]
    ELSE IF err # 0
         THEN [thrown |-> TRUE, idx |-> 0]
         ELSE [thrown |-> FALSE, idx |-> -1]

\* JlValue::datatype: the lock, jl_typeof, jl_catch!(), Datatype::new.
datatype(v, e) ==
    IF lock(v).res = "Err"
    THEN [o |-> [NoOut EXCEPT !.res = "Err", !.err = lock(v).err], pend |-> e]
    ELSE [o |-> after_probe(catch_result(e), [NoOut EXCEPT !.res = "Ok"]),
          pend |-> NULL]

\* What get and set do up to the index test: the lock of self, into_symbol
\* (Symbol::with_name: jl_symbol returns sp, a null one is InvalidSymbol),
\* the lock of the symbol, datatype() and the lock of its result,
\* jl_field_index(dt, field, -1), jl_catch!(), the test of the sign.
\* done: the operation has returned or been unwound; res "Unwound" and
\* "Abort": the runtime raised in the foreign call.
field_lookup(v, name, sp, e, handler) ==
    IF lock(v).res = "Err"
    THEN [done |-> TRUE, o |-> [NoOut EXCEPT !.res = "Err", !.err = lock(v).err],
          pend |-> e, idx |-> 0]
    ELSE IF new("Symbol", sp).res = "Err"
    THEN [done |-> TRUE,
          o |-> [NoOut EXCEPT !.res = "Err", !.err = "InvalidSymbol"],
          pend |-> e, idx |-> 0]
    ELSE LET dt == datatype(v, e)
             fi == jl_field_index(name, -1)
         IN IF dt.o.res = "Err"
            THEN [done |-> TRUE, o |-> dt.o, pend |-> dt.pend, idx |-> 0]
            ELSE IF fi.thrown
            THEN [done |-> TRUE, o |-> [NoOut EXCEPT !.res = jl_throw(handler)],
                  pend |-> dt.pend, idx |-> 0]
            ELSE IF fi.idx < 0
            THEN [done |-> TRUE,
                  o |-> [NoOut EXCEPT !.res = "Err", !.err = "InvalidSymbol"],
                  pend |-> NULL, idx |-> fi.idx]
            ELSE [done |-> FALSE, o |-> NoOut, pend |-> NULL, idx |-> fi.idx]

\* JlValue::get: the lookup, jl_get_nth_field (returns p, raises fault),
\* jl_catch!(), Value::new.
get(v, name, sp, e, handler, p, fault) ==
    LET l == field_lookup(v, name, sp, e, handler)
    IN IF l.done THEN [o |-> l.o, pend |-> l.pend, stores |-> 0]
       ELSE [o |-> after_probe(catch_result(AfterCall(l.pend, fault)),
                               closing_new("Value", p, "NullPointer")),
             pend |-> NULL, stores |-> 0]

\* JlValue::set: the lookup, the lock of the value, jl_set_nth_field (raises
\* fault), jl_catch!(), Ok(()).
set(v, name, sp, val, e, handler, fault) ==
    LET l == field_lookup(v, name, sp, e, handler)
    IN IF l.done THEN [o |-> l.o, pend |-> l.pend, stores |-> 0]
       ELSE IF lock(val).res = "Err"
       THEN [o |-> [NoOut EXCEPT !.res = "Err", !.err = lock(val).err],
             pend |-> l.pend, stores |-> 0]
       ELSE [o |-> after_probe(catch_result(AfterCall(l.pend, fault)),
                               [NoOut EXCEPT !.res = "Ok"]),
             pend |-> NULL, stores |-> 1]

Get(v, name, sp, handler, p, fault) ==
    /\ Running
    /\ UNCHANGED others
    /\ LET r == get(v, name, sp, pending, handler, p, fault)
       IN Deliver([NoRet EXCEPT !.op = "get", !.pre = pending, !.fault = fault,
                                !.arg = p, !.field = name,
                                !.stores = r.stores],
                  r.o, "Value", r.pend)

Set(v, name, sp, val, handler, fault) ==
    /\ Running
    /\ UNCHANGED others
    /\ LET r == set(v, name, sp, val, pending, handler, fault)
       IN Deliver([NoRet EXCEPT !.op = "set", !.pre = pending, !.fault = fault,
                                !.arg = lock(val).ptr, !.field = name,
                                !.stores = r.stores],
                  r.o, "none", r.pend)

NextField ==
    \/ \E e \in ExcObjs : RawCall(e)
    \/ \E name \in AskedNames, sp \in Ptrs, handler \in BOOLEAN,
          p \in Ptrs \cup {NULL}, fault \in Faults :
           Get(AHandle("Value"), name, sp, handler, p, fault)
    \/ \E name \in AskedNames, val \in Handles("Value"), handler \in BOOLEAN,
          fault \in Faults :
           Set(AHandle("Value"), name, Least(Ptrs), val, handler, fault)
    \/ \E fault \in Faults : GcCollect(fault)
    \/ \E s \in SlotIds : Drop(s)

SpecField == Init /\ [][NextField]_vars

\* ------------------------------------------------------- boxing, unboxing
\* The host types with a box_simple instance, and the guest types of the
\* boxed objects.
HostTypes ==
    {"bool", "char", "i8", "i16", "i32", "i64", "isize", "u8", "u16", "u32",
     "u64", "usize", "f32", "f64"}
GuestTypes ==
    <<"Bool", "Char", "Int8", "Int16", "Int32", "Int64", "UInt8", "UInt16",
      "UInt32", "UInt64", "Float32", "Float64", "String">>

HostValues(T) ==
    CASE T = "bool" -> BOOLEAN
      [] T \in {"i8", "i16", "i32", "i64", "isize"} -> (-MaxVal)..MaxVal
      [] OTHER -> 0..MaxVal

\* The boxed objects of the runtime's heap: the object of guest type
\* GuestTypes[g] that holds b has the address BoxAddr(g, b).
BoxSpan == 2 * MaxVal + 1
BoxAddr(g, b) == 1 + (g - 1) * BoxSpan + (b + MaxVal)
BoxType(p) == GuestTypes[((p - 1) \div BoxSpan) + 1]
BoxBits(p) == ((p - 1) % BoxSpan) - MaxVal
GuestIndex(gty) == CHOOSE g \in 1..Len(GuestTypes) : GuestTypes[g] = gty

\* The box_simple instances: the guest type the box function of T makes
\* (jl_box_long and jl_box_ulong are jl_box_int64 and jl_box_uint64 on a
\* 64-bit target), and the argument it is given: val as i8 for a bool,
\* val as u32 for a char, val itself for the rest.
box_type(T) ==
    CASE T = "bool" -> "Bool"
      [] T = "char" -> "Char"
      [] T = "i8" -> "Int8"
      [] T = "i16" -> "Int16"
      [] T = "i32" -> "Int32"
      [] T \in {"i64", "isize"} -> "Int64"
      [] T = "u8" -> "UInt8"
      [] T = "u16" -> "UInt16"
      [] T = "u32" -> "UInt32"
      [] T \in {"u64", "usize"} -> "UInt64"
      [] T = "f32" -> "Float32"
      [] T = "f64" -> "Float64"

box_arg(T, v) == IF T = "bool" THEN (IF v THEN 1 ELSE 0) ELSE v

\* jl_box_bool gives the true object for any non-zero argument.
jl_box(T, x) ==
    BoxAddr(GuestIndex(box_type(T)),
            IF T = "bool" THEN (IF x # 0 THEN 1 ELSE 0) ELSE x)

\* The unbox_simple instances: the guest type the type test of T accepts
\* (jl_is_bool, jl_is_uint32 for char and for u32, jl_is_int8, ...,
\* jl_is_long and jl_is_ulong as jl_is_int64 and jl_is_uint64).
unbox_type(T) ==
    CASE T = "bool" -> "Bool"
      [] T = "char" -> "UInt32"
      [] T = "i8" -> "Int8"
      [] T = "i16" -> "Int16"
      [] T = "i32" -> "Int32"
      [] T \in {"i64", "isize"} -> "Int64"
      [] T = "u8" -> "UInt8"
      [] T = "u16" -> "UInt16"
      [] T = "u32" -> "UInt32"
      [] T \in {"u64", "usize"} -> "UInt64"
      [] T = "f32" -> "Float32"
      [] T = "f64" -> "Float64"
      [] T = "String" -> "String"

\* char::try_from(u32): the surrogates and the values above 0x10FFFF are not
\* characters.
char_try_from(x) ==
    IF x \in 55296..57343 \/ x > 1114111
    THEN [res |-> "Err", err |-> "UTF8Error", val |-> 0]
    ELSE [res |-> "Ok", err |-> "none", val |-> x]

\* The closure of an unbox_simple instance on what the raw unbox returned.
unbox_conv(T, x) ==
    CASE T = "bool" -> [res |-> "Ok", err |-> "none", val |-> (x # 0)]
      [] T = "char" -> char_try_from(x)
      [] OTHER -> [res |-> "Ok", err |-> "none", val |-> x]

\* T::try_from(&Value) on the handle of cell c with e in the exception slot:
\* the lock and the type test; when it passes, the lock again and the raw
\* unbox (raises fault), jl_catch!(), the closure; else InvalidUnbox.  For
\* String the test is is_string, the raw call is jl_string_ptr and the bytes
\* are converted with into_string.  calls: the raw unbox calls made.
try_from(T, c, e, fault) ==
    LET none == [NoOut EXCEPT !.res = "Err"]
    IN IF lock(c).res = "Err"
       THEN [o |-> [none EXCEPT !.err = IF T = "String" THEN "InvalidUnbox"
                                                       ELSE lock(c).err],
             val |-> 0, pend |-> e, calls |-> 0]
       ELSE IF BoxType(lock(c).ptr) # unbox_type(T)
       THEN [o |-> [none EXCEPT !.err = "InvalidUnbox"], val |-> 0,
             pend |-> e, calls |-> 0]
       ELSE LET x == catch_result(AfterCall(e, fault))
                v == unbox_conv(T, BoxBits(lock(c).ptr))
            IN IF x.res = "Some"
               THEN [o |-> after_probe(x, NoOut), val |-> 0, pend |-> NULL,
                     calls |-> 1]
               ELSE [o |-> [NoOut EXCEPT !.res = v.res, !.err = v.err],
                     val |-> v.val, pend |-> NULL, calls |-> 1]

\* Value::from(v) for a host value v of type T: the box function and
\* Value::new_unchecked on the object it returns.
Box(T, v) ==
    /\ Running
    /\ UNCHANGED others
    /\ FreeSlots # {}
    /\ slot' = [slot EXCEPT ![Least(FreeSlots)] =
                    new_unchecked("Value", jl_box(T, box_arg(T, v)))]
    /\ ret' = [NoRet EXCEPT !.op = "from", !.res = "Ok", !.host = T,
                            !.val = v, !.s = Least(FreeSlots),
                            !.ptr = jl_box(T, box_arg(T, v))]
    /\ UNCHANGED pending

\* Value::from(string): jl_cstr_to_string, the text being one of 0..MaxVal.
BoxString(v) ==
    /\ Running
    /\ UNCHANGED others
    /\ FreeSlots # {}
    /\ slot' = [slot EXCEPT ![Least(FreeSlots)] =
                    new_unchecked("Value", BoxAddr(GuestIndex("String"), v))]
    /\ ret' = [NoRet EXCEPT !.op = "from", !.res = "Ok", !.host = "String",
                            !.val = v, !.s = Least(FreeSlots),
                            !.ptr = BoxAddr(GuestIndex("String"), v)]
    /\ UNCHANGED pending

\* T::try_from(&value) on the handle of cell s.  boxedas, boxedval: the host
\* type and value the handle was made from, when Value::from made it in the
\* step before.
TryFrom(T, s, fault) ==
    /\ Running
    /\ UNCHANGED others
    /\ slot[s].live /\ slot[s].ty = "Value"
    /\ LET r == try_from(T, slot[s], pending, fault)
           fresh == ret.op = "from" /\ ret.s = s
           out == [NoRet EXCEPT !.op = "try_from", !.host = T,
                                !.arg = slot[s].ptr, !.pre = pending,
                                !.fault = fault, !.calls = r.calls,
                                !.val = r.val,
                                !.boxedas = IF fresh THEN ret.host ELSE "none",
                                !.boxedval = IF fresh THEN ret.val ELSE 0]
       IN IF r.o.err = "UnhandledException"
          THEN Deliver(out, r.o, "Value", r.pend)
          ELSE /\ ret' = [out EXCEPT !.res = r.o.res, !.err = r.o.err, !.s = s]
               /\ pending' = r.pend
               /\ UNCHANGED slot

NextBox ==
    \/ \E T \in HostTypes : \E v \in HostValues(T) : Box(T, v)
    \/ \E v \in 0..MaxVal : BoxString(v)
    \/ \E T \in HostTypes \cup {"String"}, s \in SlotIds : TryFrom(T, s, NULL)
    \/ \E s \in SlotIds : Drop(s)

SpecBox == Init /\ [][NextBox]_vars

\* ------------------------------------------------------ the Julia controller
LiveCtl == {c \in CtlIds : ctl[c].live}
FreeCtl == {c \in CtlIds : ~ctl[c].live}
Statuses == 0..MaxStatus

\* Julia::is_initialized: jl_is_initialized() != 0.
is_initialized(init) == init

\* Julia::new_unchecked: panics unless the runtime is initialized; the
\* controller it makes has at_exit None.
julia_new_unchecked(init) ==
    IF ~is_initialized(init)
    THEN [res |-> "Panic",
          jl |-> NoJulia]
    ELSE [res |-> "Ok",
          jl |-> [live |-> TRUE, at_exit |-> None, origin |-> "new_unchecked",
                  touched |-> FALSE]]

julia_new_nocheck(init, e, fault) ==
    LET c == catch_result(AfterCall(e, fault))
    IN IF c.res = "Some"
       THEN [o |-> after_probe(c, NoOut), jl |-> NoJulia, init |-> TRUE,
             inits |-> 1, pend |-> NULL]
       ELSE [o |-> [NoOut EXCEPT !.res = julia_new_unchecked(TRUE).res],
             jl |-> [julia_new_unchecked(TRUE).jl EXCEPT
                         !.at_exit = Some(0), !.origin = "new"],
             init |-> TRUE, inits |-> 1, pend |-> NULL]

\* Julia::new and Julia::new_with_image after the conversion of the path:
\* Err(JuliaInitialized) when the runtime is initialized; else the
\* initializer (jl_init, jl_init_with_image; raises fault), jl_catch!(),
\* new_unchecked and at_exit = Some(0).  inits: the calls of the initializer.
julia_new(init, e, fault) ==
    IF is_initialized(init)
    THEN [o |-> [NoOut EXCEPT !.res = "Err", !.err = "JuliaInitialized"],
          jl |-> NoJulia, init |-> init, inits |-> 0, pend |-> e]
    ELSE LET c == catch_result(AfterCall(e, fault))
         IN IF c.res = "Some"
            THEN [o |-> after_probe(c, NoOut), jl |-> NoJulia, init |-> TRUE,
                  inits |-> 1, pend |-> NULL]
            ELSE [o |-> [NoOut EXCEPT !.res = julia_new_unchecked(TRUE).res],
                  jl |-> [julia_new_unchecked(TRUE).jl EXCEPT
                              !.at_exit = Some(0), !.origin = "new"],
                  init |-> TRUE, inits |-> 1, pend |-> NULL]

julia_drop_always(j) ==
    IF j.at_exit.some THEN <<j.at_exit.status>> ELSE <<0>>

\* Drop for Julia: jl_atexit_hook(s) when at_exit is Some(s).  The result is
\* the sequence of statuses the hook is run with.
julia_drop(j) ==
    IF j.at_exit.some THEN <<j.at_exit.status>> ELSE <<>>

\* The constructors return r: the controller is the host's when the result
\* is Ok.
JuliaMade(op, r) ==
    /\ Running
    /\ UNCHANGED lowlevel
    /\ initialized' = r.init
    /\ LET out == [NoRet EXCEPT !.op = op, !.wasinit = initialized,
                                !.inits = r.inits, !.pre = pending]
       IN IF r.o.res = "Ok"
          THEN /\ FreeCtl # {}
               /\ ctl' = [ctl EXCEPT ![Least(FreeCtl)] = r.jl]
               /\ ret' = [out EXCEPT !.res = "Ok", !.c = Least(FreeCtl)]
               /\ pending' = r.pend
               /\ UNCHANGED slot
          ELSE /\ UNCHANGED ctl
               /\ Deliver(out, r.o, "none", r.pend)

\* Julia::new().
JuliaNew(fault) ==
    JuliaMade("Julia::new", julia_new(initialized, pending, fault))

\* Julia::new_with_image(path).  nul: the path has an interior NUL, and
\* CString::new(path).unwrap() panics, after the test of the flag.
JuliaNewWithImage(nul, fault) ==
    IF nul /\ ~is_initialized(initialized)
    THEN /\ Running
         /\ ret' = [NoRet EXCEPT !.op = "Julia::new_with_image",
                                 !.res = "Panic", !.wasinit = initialized,
                                 !.pre = pending]
         /\ UNCHANGED <<slot, pending, initialized, ctl, lowlevel>>
    ELSE JuliaMade("Julia::new_with_image",
                   julia_new(initialized, pending, fault))

\* Julia::new_unchecked().
JuliaNewUnchecked ==
    /\ Running
    /\ LET r == julia_new_unchecked(initialized)
           out == [NoRet EXCEPT !.op = "Julia::new_unchecked",
                                !.wasinit = initialized, !.res = r.res]
       IN IF r.res = "Ok"
          THEN /\ FreeCtl # {}
               /\ ctl' = [ctl EXCEPT ![Least(FreeCtl)] = r.jl]
               /\ ret' = [out EXCEPT !.c = Least(FreeCtl)]
          ELSE /\ ret' = out
               /\ UNCHANGED ctl
    /\ UNCHANGED <<slot, pending, initialized, lowlevel>>

\* jl.at_exit(opt).
AtExit(c, opt) ==
    /\ Running
    /\ ctl[c].live
    /\ ctl' = [ctl EXCEPT ![c].at_exit = opt, ![c].touched = TRUE]
    /\ ret' = [NoRet EXCEPT !.op = "at_exit", !.c = c, !.was = ctl[c].at_exit]
    /\ UNCHANGED <<slot, pending, initialized, lowlevel>>

\* The controller c goes out of scope with the field at_exit.  stays: the
\* runtime still reports itself initialized after its at-exit hook has run.
Dropped(op, c, at_exit, stays) ==
    /\ Running
    /\ ctl[c].live
    /\ LET j == [ctl[c] EXCEPT !.at_exit = at_exit]
       IN /\ ret' = [NoRet EXCEPT !.op = op, !.c = c, !.was = at_exit,
                                  !.hooks = julia_drop(j),
                                  !.origin = j.origin,
                                  !.touched = j.touched \/ op = "exit",
                                  !.wasinit = initialized]
          /\ initialized' = IF julia_drop(j) = <<>> THEN initialized
                                                    ELSE initialized /\ stays
    /\ ctl' = [ctl EXCEPT ![c] = NoJulia]
    /\ UNCHANGED <<slot, pending, lowlevel>>

\* jl.exit(status): at_exit(Some(status)), and self is dropped at the end
\* of exit.
Exit(c, st, stays) == Dropped("exit", c, Some(st), stays)

\* drop(jl).
DropJulia(c, stays) == Dropped("drop_julia", c, ctl[c].at_exit, stays)

NextJulia ==
    \/ \E fault \in Faults : JuliaNew(fault)
    \/ \E nul \in BOOLEAN, fault \in Faults : JuliaNewWithImage(nul, fault)
    \/ JuliaNewUnchecked
    \/ \E c \in CtlIds, opt \in {None} \cup {Some(st) : st \in Statuses} :
           AtExit(c, opt)
    \/ \E c \in CtlIds, st \in Statuses, stays \in BOOLEAN : Exit(c, st, stays)
    \/ \E c \in CtlIds, stays \in BOOLEAN : DropJulia(c, stays)
    \/ \E s \in SlotIds : Drop(s)

SpecJulia == Init /\ [][NextJulia]_vars

\* ------------------------------------------------------------ value handle
\* C1: for every non-null pointer P and every handle type, new(P) succeeds
\* and a lock() on the handle it returned, called next, returns exactly P.
C1_NewThenLock ==
    (ret.op = "new" /\ ret.arg # NULL) =>
        /\ ret.res = "Ok"
        /\ ret.s \in SlotIds
        /\ slot[ret.s].ty = ret.ty
        /\ lock(slot[ret.s]).res = "Ok"
        /\ lock(slot[ret.s]).ptr = ret.arg

C1_Witness ==
    /\ ret.op = "new" /\ ret.res = "Ok" /\ ret.arg = MaxPtr
    /\ ret.ty = "Function"
    /\ lock(slot[ret.s]).ptr = MaxPtr

\* C2: new(null) returns Err(NullPointer) and creates no handle, for every
\* handle type.
C2_NewNull ==
    (ret.op = "new" /\ ret.arg = NULL) =>
        /\ ret.res = "Err" /\ ret.err = "NullPointer"
        /\ ret.s = 0
        /\ Cardinality(LiveSlots) = ret.cells

C2_Witness ==
    /\ ret.op = "new" /\ ret.arg = NULL /\ ret.err = "NullPointer"
    /\ ret.ty = "Function"

\* C3: the pointer wrapped by a handle made through the checked paths (new,
\* from_value, into_value) is never null, whatever sequence of new, clone,
\* lock, into_inner, from_value, into_value and drop has run.
C3_CheckedNonNull ==
    \A s \in SlotIds :
        (slot[s].live /\ slot[s].checked) =>
            /\ slot[s].ptr # NULL
            /\ lock(slot[s]).res = "Ok" => lock(slot[s]).ptr # NULL

C3_Witness ==
    /\ ret.op = "from_value" /\ ret.res = "Ok"
    /\ slot[ret.s].checked /\ slot[ret.s].ptr # NULL

\* C4: into_inner returns Err(ResourceInUse) exactly when another owner of
\* the handle's cell exists at the call, and Ok with the wrapped pointer when
\* the handle is the sole owner.
C4_IntoInner ==
    ret.op = "into_inner" =>
        /\ (ret.res = "Err" /\ ret.err = "ResourceInUse") <=> ret.n > 1
        /\ ret.n = 1 => (ret.res = "Ok" /\ ret.ptr = ret.arg)

C4_Witness ==
    /\ ret.op = "into_inner" /\ ret.n = MaxOwners
    /\ ret.err = "ResourceInUse"

\* C5: once the closure given to Value::map has panicked, lock() on the
\* handle fails with PoisonError and is_ok() is false.
C5_PanicPoisons ==
    (ret.op = "map" /\ ret.res = "Panic") =>
        /\ lock(slot[ret.s]).res = "Err"
        /\ lock(slot[ret.s]).err = "PoisonError"
        /\ ~is_ok(slot[ret.s])

\* C6: while a caller still uses the raw pointer lock() gave it, no other
\* lock() on the handle or a clone of it hands out that pointer.
C6_ExclusiveView ==
    ~(ret.op = "lock" /\ ret.res = "Ok" /\ ret.aliased)

\* C7: from_value and into_value on a solely-owned handle that wraps a
\* (non-null) pointer P consume it and yield a handle of the target type whose
\* lock() returns exactly P; a conversion to another type and back yields a
\* handle of the first type that wraps P again.
C7_ConvertKeepsPointer ==
    (ret.op \in {"from_value", "into_value"} /\ ret.n = 1 /\ ret.arg # NULL) =>
        /\ ret.res = "Ok"
        /\ ret.s \in SlotIds
        /\ slot[ret.s].ty = ret.ty
        /\ slot[ret.s].strong = 1
        /\ lock(slot[ret.s]).res = "Ok"
        /\ lock(slot[ret.s]).ptr = ret.arg
        /\ lock(slot[ret.s]).ptr = ret.orig
        /\ Cardinality(LiveSlots) = ret.cells

C7_Witness ==
    /\ ret.op = "into_value" /\ ret.res = "Ok" /\ ret.hops = 2
    /\ ret.sty # ret.ty
    /\ lock(slot[ret.s]).ptr = ret.orig

\* C8: with several handles sharing one cell, a drop that leaves an owner
\* leaves the cell alive with the pointer it wrapped (lock() on a survivor
\* returns it); the cell is released by the drop of its last owner only.
C8_DropKeepsSurvivors ==
    /\ \A s \in SlotIds : slot[s].live <=> slot[s].strong >= 1
    /\ (ret.op = "drop" /\ ret.n > 1) =>
           /\ slot[ret.s].live
           /\ slot[ret.s].strong = ret.n - 1
           /\ lock(slot[ret.s]).res = "Ok"
           /\ lock(slot[ret.s]).ptr = ret.arg
    /\ (ret.op = "drop" /\ ret.n = 1) => ~slot[ret.s].live

C8_Witness ==
    /\ ret.op = "drop" /\ ret.n = MaxOwners
    /\ slot[ret.s].live /\ lock(slot[ret.s]).ptr = ret.arg

\* --------------------------------------------------------- exception claims
WrapperOps == {"eval_string", "gc_collect"}

\* C9: with the exception slot pending, Exception::catch returns the
\* exception and leaves the slot clear, so that a catch or an occurred called
\* next reports none; a fault is reported at most once, and the operation
\* after a faulted one starts with a clear slot.
C9_CatchClears ==
    /\ (ret.op = "catch" /\ ret.pre # NULL) =>
           (ret.res = "Some" /\ ret.ptr = ret.pre)
    /\ ret.op = "catch" =>
           /\ pending = NULL
           /\ ~occurred(pending)
           /\ catch_result(pending).res = "None"
    /\ ret.op \in WrapperOps => pending = NULL

\* The part of C9 about the slot alone: catch and every wrapper operation
\* leave it clear.
C9_SlotClearAfterProbe ==
    ret.op \in WrapperOps \cup {"catch"} =>
        /\ pending = NULL
        /\ ~occurred(pending)
        /\ catch_result(pending).res = "None"

\* C10: when the foreign call of a wrapper operation leaves an exception
\* pending, the operation returns Err(UnhandledException) carrying that
\* exception, whatever the type name of the exception object, and never Ok.
C10_FaultPropagates ==
    (ret.op \in WrapperOps /\ ret.fault # NULL) =>
        /\ ret.res = "Err"
        /\ ret.err = "UnhandledException"
        /\ ret.ptr = ret.fault

\* C10 for the exception objects whose type name converts to a String (the
\* names of the table and the unknown ones alike): the fault is propagated.
C10_ConvertibleNames ==
    (/\ ret.op \in WrapperOps /\ ret.fault # NULL
     /\ try_into_string(jl_typeof_str(ret.fault)).res = "Ok") =>
        /\ ret.res = "Err"
        /\ ret.err = "UnhandledException"
        /\ ret.ptr = ret.fault
        /\ ret.kind = with_value_kind(jl_typeof_str(ret.fault))
        /\ lock(slot[ret.s]).ptr = ret.fault

\* --------------------------------------------------- wrapper-operation claims
\* The wrapper operations whose foreign calls can leave an exception pending.
ProbedOps ==
    {"eval_string", "gc_collect", "isa", "types_equal", "new_array",
     "call", "call0", "call1", "call2", "call3"}

\* C11: in every wrapper operation each foreign call that can fault is
\* followed by the probe before the operation makes another foreign call or
\* returns: no operation makes a foreign call while an exception raised by
\* one of its earlier calls is in the slot (new_array's element stores), and
\* none returns with an exception one of its calls raised still in the slot
\* (isa, types_equal).
C11_ProbeAfterEachCall ==
    ret.op \in ProbedOps =>
        /\ ret.blind = 0
        /\ ret.raised => pending = NULL

\* The part of C11 that holds: the operations that end in one probe after
\* their last foreign call return with the slot clear.
C11_SingleCallOps ==
    (ret.op \in ProbedOps \ {"isa", "types_equal"}) => pending = NULL

\* The table of C12: the type names and the variant each yields.
KnownKinds ==
    {<<"ArgumentError", "Argument">>, <<"BoundsError", "Bounds">>,
     <<"CompositeException", "Composite">>, <<"DivideError", "Divide">>,
     <<"DomainError", "Domain">>, <<"EOFError", "EOF">>,
     <<"ErrorException", "Error">>, <<"InexactError", "Inexact">>,
     <<"InitError", "Init">>, <<"InterruptException", "Interrupt">>,
     <<"InvalidStateException", "InvalidState">>, <<"KeyError", "Key">>,
     <<"LoadError", "Load">>, <<"OutOfMemoryError", "OutOfMemory">>,
     <<"ReadOnlyMemoryError", "ReadOnlyMemory">>,
     <<"RemoteException", "Remote">>, <<"MethodError", "Method">>,
     <<"OverflowError", "Overflow">>, <<"ParseError", "Parse">>,
     <<"SystemError", "System">>, <<"TypeError", "Type">>,
     <<"UndefRefError", "UndefRef">>, <<"UndefVarError", "UndefVar">>,
     <<"UnicodeError", "Unicode">>}

\* The variant the table gives a type name.
KindOf(name) ==
    IF \E k \in KnownKinds : k[1] = name
    THEN (CHOOSE k \in KnownKinds : k[1] = name)[2]
    ELSE "Unknown"

\* C12: Exception::with_value yields, for the exact type name of the value,
\* the variant of the table, Unknown for every other name, and the variant
\* carries the handle that was passed in.
C12_Classification ==
    ret.op = "with_value" =>
        /\ ret.res = "Ok"
        /\ ret.kind = KindOf(jl_typeof_str(ret.arg))
        /\ ret.s \in SlotIds
        /\ slot[ret.s].live /\ slot[ret.s].strong = ret.n
        /\ lock(slot[ret.s]).ptr = ret.arg

\* C12 for the type names that convert to a String, with no exception in
\* the slot at the call.
C12_ConvertibleNames ==
    (/\ ret.op = "with_value" /\ ret.pre = NULL
     /\ try_into_string(jl_typeof_str(ret.arg)).res = "Ok") =>
        /\ ret.res = "Ok"
        /\ ret.kind = KindOf(jl_typeof_str(ret.arg))
        /\ ret.s \in SlotIds
        /\ slot[ret.s].live /\ slot[ret.s].strong = ret.n
        /\ lock(slot[ret.s]).ptr = ret.arg

EvalOps == {"eval_string", "call", "call0", "call1", "call2", "call3"}

\* C13: Julia::eval_string and Function::call, call0..call3 map the outcome
\* of their foreign call in this order: an exception in the slot gives
\* Err(UnhandledException(kind)), kind by the type name of the exception
\* (ParseError gives Parse, UndefVarError gives UndefVar); else a null result
\* gives Err(EvalError) for eval_string and Err(CallError) for the calls;
\* else Ok of a Value handle that wraps the pointer returned.
C13_OutcomeOrder ==
    ret.op \in EvalOps =>
        LET e == IF ret.fault # NULL THEN ret.fault ELSE ret.pre
        IN /\ e # NULL =>
                  /\ ret.res = "Err" /\ ret.err = "UnhandledException"
                  /\ ret.kind = KindOf(jl_typeof_str(e))
                  /\ ret.ptr = e
           /\ (e = NULL /\ ret.arg = NULL) =>
                  /\ ret.res = "Err"
                  /\ ret.err = IF ret.op = "eval_string" THEN "EvalError"
                                                        ELSE "CallError"
           /\ (e = NULL /\ ret.arg # NULL) =>
                  /\ ret.res = "Ok"
                  /\ ret.s \in SlotIds
                  /\ slot[ret.s].ty = "Value"
                  /\ lock(slot[ret.s]).ptr = ret.arg

\* C13 for the exceptions whose type name converts to a String.
C13_ConvertibleNames ==
    ret.op \in EvalOps =>
        LET e == IF ret.fault # NULL THEN ret.fault ELSE ret.pre
        IN /\ (e # NULL /\ try_into_string(jl_typeof_str(e)).res = "Ok") =>
                  /\ ret.res = "Err" /\ ret.err = "UnhandledException"
                  /\ ret.kind = KindOf(jl_typeof_str(e))
                  /\ ret.ptr = e
           /\ (e = NULL /\ ret.arg = NULL) =>
                  /\ ret.res = "Err"
                  /\ ret.err = IF ret.op = "eval_string" THEN "EvalError"
                                                        ELSE "CallError"
           /\ (e = NULL /\ ret.arg # NULL) =>
                  /\ ret.res = "Ok"
                  /\ ret.s \in SlotIds
                  /\ slot[ret.s].ty = "Value"
                  /\ lock(slot[ret.s]).ptr = ret.arg

\* C14: JlValue::get and JlValue::set called with a field name that is not a
\* field of the value's datatype return Err(InvalidSymbol), not an
\* UnhandledException and not Ok, and set makes no field store.
C14_FieldMiss ==
    (/\ ret.op \in {"get", "set"}
     /\ \A i \in 1..Len(FieldNames) : FieldNames[i] # ret.field) =>
        /\ ret.res = "Err"
        /\ ret.err = "InvalidSymbol"
        /\ ret.stores = 0

\* The part of C14 that holds: no field store is made for a name that is
\* not a field, and the operation does not return Ok.
C14_NoStoreOnMiss ==
    (/\ ret.op \in {"get", "set"}
     /\ \A i \in 1..Len(FieldNames) : FieldNames[i] # ret.field) =>
        /\ ret.res # "Ok"
        /\ ret.stores = 0

\* ------------------------------------------------------------ boxing claims
\* C15: for every boxable host type T and every value v of T,
\* T::try_from(&Value::from(v)) returns Ok(v).
C15_BoxUnboxRoundTrip ==
    (/\ ret.op = "try_from" /\ ret.host \in HostTypes
     /\ ret.boxedas = ret.host) =>
        /\ ret.res = "Ok"
        /\ ret.val = ret.boxedval

\* C15 for the host types other than char.
C15_ExceptChar ==
    (/\ ret.op = "try_from" /\ ret.host \in HostTypes \ {"char"}
     /\ ret.boxedas = ret.host) =>
        /\ ret.res = "Ok"
        /\ ret.val = ret.boxedval

\* The guest type that corresponds to a host type: the type of the objects
\* Value::from makes of its values.
GuestOf(T) == IF T = "String" THEN "String" ELSE box_type(T)

\* C16: for a boxed value whose dynamic type is not the guest type that
\* corresponds to the host type T asked for (String and char included),
\* T::try_from returns Err(InvalidUnbox) and makes no raw unbox call.
C16_WrongTypeIsInvalidUnbox ==
    (ret.op = "try_from" /\ BoxType(ret.arg) # GuestOf(ret.host)) =>
        /\ ret.res = "Err"
        /\ ret.err = "InvalidUnbox"
        /\ ret.calls = 0

\* C16 for the host types other than char.
C16_ExceptChar ==
    (/\ ret.op = "try_from" /\ ret.host # "char"
     /\ BoxType(ret.arg) # GuestOf(ret.host)) =>
        /\ ret.res = "Err"
        /\ ret.err = "InvalidUnbox"
        /\ ret.calls = 0

\* ---------------------------------------------------------------- calls
FixedCalls == {"call0", "call1", "call2", "call3"}

\* C17: call0, call1, call2 and call3 on a function handle and arguments
\* return what the generic call returns on the same handle and the same
\* arguments in a sequence: the same Ok, and the same error for a pending
\* exception, a null result and a failed lock.
C17_FixedArityAsGeneric ==
    ret.op \in FixedCalls =>
        /\ ret.gen.res # "none"
        /\ ret.res = ret.gen.res
        /\ ret.err = ret.gen.err
        /\ ret.kind = ret.gen.kind
        /\ ret.ptr = ret.gen.ptr
        /\ ret.res = "Ok" => (slot[ret.s].ty = "Value"
                                /\ lock(slot[ret.s]).ptr = ret.gen.ptr)

C17_Witness ==
    /\ ret.op = "call3" /\ ret.n = 3
    /\ ret.res = "Err" /\ ret.err = "CallError" /\ ret.gen.err = "CallError"

C19_NoSecondInit ==
    (ret.op \in {"Julia::new", "Julia::new_with_image"} /\ ret.wasinit) =>
        /\ ret.res = "Err"
        /\ ret.err = "JuliaInitialized"
        /\ ret.inits = 0
        /\ ret.c = 0

C19_Witness ==
    /\ ret.op = "Julia::new_with_image" /\ ret.wasinit
    /\ ret.err = "JuliaInitialized" /\ ret.inits = 0
    /\ LiveCtl # {}

\* C20: the drop of a controller runs the at-exit hook once with s exactly
\* when its at_exit is Some(s) at the drop, and not at all when it is None:
\* a controller from new or new_with_image that at_exit was not called on
\* runs it with 0, exit(s) runs it with s, and a controller from
\* new_unchecked runs it only after at_exit(Some(_)) or exit.
C20_HookOnDrop ==
    /\ ret.op \in {"drop_julia", "exit"} =>
           /\ ret.hooks = (IF ret.was.some THEN <<ret.was.status>> ELSE <<>>)
           /\ ~ctl[ret.c].live
           /\ (ret.origin = "new" /\ ~ret.touched) => ret.hooks = <<0>>
           /\ (ret.origin = "new_unchecked" /\ ~ret.touched) => ret.hooks = <<>>
    /\ ret.op = "exit" => Len(ret.hooks) = 1
    /\ (ret.op \in {"Julia::new", "Julia::new_with_image"} /\ ret.res = "Ok") =>
           ctl[ret.c].at_exit = Some(0)
    /\ (ret.op = "Julia::new_unchecked" /\ ret.res = "Ok") =>
           ctl[ret.c].at_exit = None

C20_Witness ==
    /\ ret.op = "drop_julia" /\ ret.origin = "new_unchecked"
    /\ ret.was = Some(MaxStatus) /\ ret.hooks = <<MaxStatus>>

\* ------------------------------------------------------ the thread's GC state
\* The bytes the functions of threads.rs name: the thread's gc_state (g) and
\* the parameter state of jl_gc_state_set (st), by address.
GcMem(g, st) == [a \in {"gc_state", "state"} |-> IF a = "gc_state" THEN g ELSE st]

\* AtomicPtr::new(p): a new atomic cell that holds the pointer p.
AtomicPtr_new(p) == [val |-> p]

\* jl_atomic_load_relaxed(ptr): the pointer the cell holds.
jl_atomic_load_relaxed(cell) == cell.val

\* jl_atomic_store_release and jl_atomic_store_relaxed(ptr, desired): the
\* cell holds the pointer desired afterwards.  The result is the cell; the
\* memory the old and the new pointer name is not written.
jl_atomic_store(cell, desired) == [cell EXCEPT !.val = desired]

jl_gc_safepoint_nofence == <<"load">>

\* jl_gc_safepoint_: jl_signal_fence, the load of *ptls.safepoint,
\* jl_signal_fence.
jl_gc_safepoint_ == <<"fence", "load", "fence">>

\* jl_gc_state_set(ptls, state, old_state).  The store is made into the cell
\* AtomicPtr::new(&mut ptls.gc_state), a temporary that is dropped at the end
\* of the statement: mem is the memory afterwards.
jl_gc_state_set(g, state, old_state) ==
    LET cell == jl_atomic_store(AtomicPtr_new("gc_state"), "state")
        mem == GcMem(g, state)
    IN [gc_state |-> mem["gc_state"],
        cell |-> cell,
        ev |-> <<"store">> \o (IF old_state # 0 /\ state = 0
                               THEN jl_gc_safepoint_ ELSE <<>>),
        out |-> old_state,
        state |-> state, old |-> old_state]

\* jl_gc_state_save_and_set(ptls, state): old_state is
\* *jl_atomic_load_relaxed(AtomicPtr::new(&mut ptls.gc_state)).
jl_gc_state_save_and_set(g, state) ==
    jl_gc_state_set(g, state,
        GcMem(g, state)[jl_atomic_load_relaxed(AtomicPtr_new("gc_state"))])

jl_gc_unsafe_enter(g) == jl_gc_state_save_and_set(g, 0)
jl_gc_unsafe_leave(g, state) == jl_gc_state_set(g, state, 0)
jl_gc_safe_enter(g) == jl_gc_state_save_and_set(g, JL_GC_STATE_SAFE)
jl_gc_safe_leave(g, state) == jl_gc_state_set(g, state, JL_GC_STATE_SAFE)

\* One call of a function of threads.rs with the result r.
GcStateOp(op, r) ==
    /\ Running
    /\ gc_state' = r.gc_state
    /\ UNCHANGED <<heapvars, stackvars, svec>>
    /\ ret' = [NoRet EXCEPT !.op = op, !.state = r.state, !.old = r.old,
                            !.before = gc_state, !.out = r.out, !.ev = r.ev]
    /\ UNCHANGED wrappers

GcStateSet(state, old_state) ==
    GcStateOp("jl_gc_state_set", jl_gc_state_set(gc_state, state, old_state))
GcStateSaveAndSet(state) ==
    GcStateOp("jl_gc_state_save_and_set",
              jl_gc_state_save_and_set(gc_state, state))
GcUnsafeEnter == GcStateOp("jl_gc_unsafe_enter", jl_gc_unsafe_enter(gc_state))
GcUnsafeLeave(state) ==
    GcStateOp("jl_gc_unsafe_leave", jl_gc_unsafe_leave(gc_state, state))
GcSafeEnter == GcStateOp("jl_gc_safe_enter", jl_gc_safe_enter(gc_state))
GcSafeLeave(state) ==
    GcStateOp("jl_gc_safe_leave", jl_gc_safe_leave(gc_state, state))

\* The runtime sets the byte itself (a wait for the collector, a foreign
\* call made by the guest).
RuntimeSetsState(g) ==
    /\ Running
    /\ gc_state' = g
    /\ UNCHANGED <<heapvars, stackvars, svec>>
    /\ ret' = [NoRet EXCEPT !.op = "runtime", !.before = gc_state, !.state = g]
    /\ UNCHANGED wrappers

NextGcState ==
    \/ \E state \in GcStates, old_state \in GcStates :
           GcStateSet(state, old_state)
    \/ \E state \in GcStates : GcStateSaveAndSet(state)
    \/ GcUnsafeEnter
    \/ \E state \in GcStates : GcUnsafeLeave(state)
    \/ GcSafeEnter
    \/ \E state \in GcStates : GcSafeLeave(state)
    \/ \E g \in GcStates : RuntimeSetsState(g)

SpecGcState == Init /\ [][NextGcState]_vars

\* --------------------------------------------------------- GC state claims
GcStateOps ==
    {"jl_gc_state_set", "jl_gc_state_save_and_set", "jl_gc_unsafe_enter",
     "jl_gc_unsafe_leave", "jl_gc_safe_enter", "jl_gc_safe_leave"}

\* C21: after jl_gc_state_set(ptls, state, old_state) the thread's gc_state
\* byte equals state and the function returns old_state; jl_gc_unsafe_enter
\* and jl_gc_safe_enter leave gc_state at 0 and JL_GC_STATE_SAFE and return
\* the previous state.
C21_StateStored ==
    /\ ret.op \in GcStateOps => (gc_state = ret.state /\ ret.out = ret.old)
    /\ ret.op = "jl_gc_unsafe_enter" => (gc_state = 0 /\ ret.out = ret.before)
    /\ ret.op = "jl_gc_safe_enter" =>
           (gc_state = JL_GC_STATE_SAFE /\ ret.out = ret.before)

\* The part of C21 the code keeps: the result is old_state, which for the
\* enter functions is the byte as it was, and the byte is left as it was.
C21_ReturnsOldState ==
    /\ ret.op \in GcStateOps => (ret.out = ret.old /\ gc_state = ret.before)
    /\ ret.op \in {"jl_gc_state_save_and_set", "jl_gc_unsafe_enter",
                   "jl_gc_safe_enter"} => ret.out = ret.before

\* C22: jl_gc_state_set polls the safepoint, after the store and before it
\* returns, exactly when old_state is not 0 and state is 0; the poll is a
\* fence, the load of the safepoint page and a fence, in this order.
C22_PollOnLeavingSafe ==
    ret.op \in GcStateOps =>
        ret.ev = IF ret.old # 0 /\ ret.state = 0
                 THEN <<"store", "fence", "load", "fence">>
                 ELSE <<"store">>

C22_Witness ==
    /\ ret.op = "jl_gc_unsafe_enter" /\ ret.before = JL_GC_STATE_SAFE
    /\ Len(ret.ev) = 4

\* -------------------------------------------------------------- type tags
\* jl_small_typeof.len(): the table has (jl_max_tags << 4) / sizeof(pointer)
\* entries.
SmallTypeofLen == (jl_max_tags * TagUnit) \div PtrBytes

SmallTagIds == (0..MaxTagId) \cup {jl_max_tags - 1}
SmallTagged == {k \in SmallTagIds : k # 0}
\* The tag words of headers: k << 4 for a small tag k, the type's address
\* otherwise (the least address that is not a small tag among them).
TagWords ==
    {k * TagUnit : k \in SmallTagIds} \cup {jl_max_tags * TagUnit}
        \cup {FullType(k) : k \in 1..MaxTagId}
Headers == {t + low : t \in TagWords, low \in 0..(TagUnit - 1)}

\* The runtime's table: entry (k << 4) / sizeof(pointer) is the type of the
\* small tag k, the other entries are null.
jl_small_typeof ==
    [i \in 0..(SmallTypeofLen - 1) |->
        IF (i * PtrBytes) % TagUnit = 0 /\ (i * PtrBytes) \div TagUnit \in SmallTagged
        THEN SmallType((i * PtrBytes) \div TagUnit) ELSE NULL]

\* jl_typetagof(v): header & !15, for the header word before the object.
jl_typetagof(header) == header - (header % TagUnit)

\* The index jl_to_typeof reads the table at.
to_typeof_index(t) == t \div (SmallTypeofLen * PtrBytes)

\* jl_to_typeof(t).
jl_to_typeof(t) ==
    IF t < jl_max_tags * TagUnit
    THEN jl_small_typeof[to_typeof_index(t)]
    ELSE t

\* jl_typeof(v).
jl_typeof(header) == jl_to_typeof(jl_typetagof(header))

TagOp(op, arg, n, out) ==
    /\ Running
    /\ ret' = [NoRet EXCEPT !.op = op, !.arg = arg, !.n = n, !.out = out]
    /\ UNCHANGED <<wrappers, lowlevel>>

Typetagof(header) == TagOp("jl_typetagof", header, 0, jl_typetagof(header))
ToTypeof(t) ==
    TagOp("jl_to_typeof", t,
          IF t < jl_max_tags * TagUnit THEN to_typeof_index(t) ELSE 0,
          jl_to_typeof(t))
Typeof(header) ==
    TagOp("jl_typeof", header,
          IF header < jl_max_tags * TagUnit
          THEN to_typeof_index(jl_typetagof(header)) ELSE 0,
          jl_typeof(header))

NextTag ==
    \/ \E header \in Headers : Typetagof(header)
    \/ \E t \in TagWords : ToTypeof(t)
    \/ \E header \in Headers : Typeof(header)

SpecTag == Init /\ [][NextTag]_vars

\* ---------------------------------------------------------- write barriers
ObjIds == 1..MaxObj
GcBits == 0..3
GC_OLD == 2

\* __bindgen_anon_1.bits.gc() of the header word: its low two bits.
gc(header) == header % 4

\* (*(*dt).layout).npointers of the type at the address t: the types at the
\* odd addresses FullType(1), FullType(3), .. hold an internal pointer.
npointers(t) == IF t \in {FullType(k) : k \in 1..MaxObj} THEN (t \div TagUnit) % 2 ELSE 0

\* The calls of the collector a barrier makes.
queue_root(o) == [fn |-> "jl_gc_queue_root", a |-> o, b |-> 0]
queue_multiroot(o, p) == [fn |-> "jl_gc_queue_multiroot", a |-> o, b |-> p]

jl_gc_wb_ptr(h, parent, ptr) ==
    IF gc(h[parent]) = 3 /\ gc(h[ptr]) % 2 = 0
    THEN <<queue_root(ptr)>> ELSE <<>>

\* jl_gc_wb(parent, ptr): the calls of the collector it makes.
jl_gc_wb(h, parent, ptr) ==
    IF gc(h[parent]) = 3 /\ gc(h[ptr]) % 2 = 0
    THEN <<queue_root(parent)>> ELSE <<>>

\* jl_gc_wb_back(ptr).
jl_gc_wb_back(h, ptr) ==
    IF gc(h[ptr]) = 3 THEN <<queue_root(ptr)>> ELSE <<>>

\* jl_gc_multi_wb(parent, ptr): the first test returns for a parent that is
\* not old, the second for a parent that is.
jl_gc_multi_wb(h, parent, ptr) ==
    IF gc(h[parent]) # 3 THEN <<>>
    ELSE IF gc(h[parent]) = 3 THEN <<>>
    ELSE IF npointers(jl_typeof(h[ptr])) # 0
         THEN <<queue_multiroot(parent, ptr)>> ELSE <<>>

\* jl_gc_queue_root and jl_gc_queue_multiroot of the runtime: the root loses
\* its GC_OLD bit and, when it had it, enters the remembered set.
RECURSIVE queued_roots(_, _, _)
queued_roots(h, rs, calls) ==
    IF calls = <<>> THEN [hdr |-> h, remset |-> rs]
    ELSE LET o == Head(calls).a
         IN queued_roots(
                [h EXCEPT ![o] = IF gc(h[o]) \div GC_OLD = 1 THEN h[o] - GC_OLD
                                                              ELSE h[o]],
                IF gc(h[o]) \div GC_OLD = 1 THEN Append(rs, o) ELSE rs,
                Tail(calls))

\* One barrier with the calls it makes.
Barrier(op, parent, ptr, calls) ==
    /\ Running
    /\ hdr' = queued_roots(hdr, remset, calls).hdr
    /\ remset' = queued_roots(hdr, remset, calls).remset
    /\ ret' = [NoRet EXCEPT !.op = op, !.parent = parent, !.child = ptr,
                            !.pgc = gc(hdr[parent]), !.cgc = gc(hdr[ptr]),
                            !.np = npointers(FullType(ptr)),
                            !.queued = calls]
    /\ UNCHANGED <<wrappers, gc_state, stackvars, svec>>

GcWb(parent, ptr) ==
    Barrier("jl_gc_wb", parent, ptr, jl_gc_wb(hdr, parent, ptr))
GcWbBack(ptr) ==
    Barrier("jl_gc_wb_back", ptr, ptr, jl_gc_wb_back(hdr, ptr))
GcMultiWb(parent, ptr) ==
    Barrier("jl_gc_multi_wb", parent, ptr, jl_gc_multi_wb(hdr, parent, ptr))

\* A collection of the runtime: the remembered set is emptied and every
\* object gets the GC bits of its age and mark.
Collection(bits) ==
    /\ Running
    /\ hdr' = [o \in ObjIds |-> jl_typetagof(hdr[o]) + bits[o]]
    /\ remset' = <<>>
    /\ ret' = [NoRet EXCEPT !.op = "collection"]
    /\ UNCHANGED <<wrappers, gc_state, stackvars, svec>>

NextWb ==
    \/ \E parent \in ObjIds, ptr \in ObjIds : GcWb(parent, ptr)
    \/ \E ptr \in ObjIds : GcWbBack(ptr)
    \/ \E parent \in ObjIds, ptr \in ObjIds : GcMultiWb(parent, ptr)
    \/ \E bits \in [ObjIds -> GcBits] : Collection(bits)

SpecWb == Init /\ [][NextWb]_vars

\* ------------------------------------------------------------ type layouts
\* A layout of the runtime: fielddesc_type (flag), nfields field entries of
\* two words of 1 << flag bytes each (isptr in the lowest bit of the first
\* word and size above it, offset in the second), then npointers entries of
\* one word each.  The contents are named by variant.
EntryWidth(flag) == 2 ^ flag
\* Contents that fill the bytes of a word of 2 or 4 bytes; the wider words
\* of a layout with the flag 3, which the runtime does not make, are filled
\* as those of 4 bytes.
Scale(w) == IF w = 1 THEN 1 ELSE IF w = 2 THEN 256 + 3 ELSE 256 ^ 3 + 3
RECURSIVE ByteOf(_, _)
ByteOf(word, j) == IF j = 0 THEN word % 256 ELSE ByteOf(word \div 256, j - 1)
FieldIsPtr(k, v) == (k + v) % 2
FieldSize(flag, k, v) == (k + v + 1) * Scale(EntryWidth(flag))
FieldOffset(flag, k, v) == (2 * k + v) * Scale(EntryWidth(flag))
PtrOffset(flag, k, v) == (3 * k + v) * Scale(EntryWidth(flag))

\* The bytes after the layout's header, by their distance from
\* jl_dt_layout_fields(ly), little-endian.
LayoutMem(flag, nf, np, v) ==
    LET w == EntryWidth(flag)
        word(pos) ==
            IF pos < nf * 2 * w
            THEN IF pos % (2 * w) < w
                 THEN FieldIsPtr(pos \div (2 * w), v)
                          + 2 * FieldSize(flag, pos \div (2 * w), v)
                 ELSE FieldOffset(flag, pos \div (2 * w), v)
            ELSE PtrOffset(flag, (pos - nf * 2 * w) \div w, v)
    IN [pos \in 0..(nf * 2 * w + np * w - 1) |->
           ByteOf(word(pos), pos % w)]

\* The read of a little-endian word of w bytes at the distance at.
RECURSIVE read(_, _, _)
read(mem, at, w) ==
    IF w = 0 THEN 0 ELSE mem[at] + 256 * read(mem, at + 1, w - 1)

Layout(flag, nf, np, v) ==
    [flag |-> flag, nfields |-> nf, npointers |-> np,
     mem |-> LayoutMem(flag, nf, np, v)]

Value(x) == [res |-> "Ok", out |-> x]
Panic == [res |-> "Panic", out |-> 0]

\* jl_fielddesc_size(fielddesc_type): 2u32 << fielddesc_type.
jl_fielddesc_size(t) == 2 * 2 ^ t

\* jl_dt_layout_ptrs(l), as a distance from jl_dt_layout_fields(l).
jl_dt_layout_ptrs(ly) == jl_fielddesc_size(ly.flag) * ly.nfields

\* jl_field_offset(st, i): the member offset of the entry at .add(i).
jl_field_offset(ly, i) ==
    CASE ly.flag = 0 -> Value(read(ly.mem, i * 2 + 1, 1))
      [] ly.flag = 1 -> Value(read(ly.mem, i * 4 + 2, 2))
      [] ly.flag = 2 -> Value(read(ly.mem, i * 8 + 4, 4))
      [] OTHER -> Panic

\* jl_field_size(st, i): the bit-field size() of the entry at .add(i).
jl_field_size(ly, i) ==
    CASE ly.flag = 0 -> Value(read(ly.mem, i * 2, 1) \div 2)
      [] ly.flag = 1 -> Value(read(ly.mem, i * 4, 2) \div 2)
      [] ly.flag = 2 -> Value(read(ly.mem, i * 8, 4) \div 2)
      [] OTHER -> Panic

\* jl_field_isptr(st, i): isptr() of the jl_fielddesc8_t at the distance
\* jl_fielddesc_size(flag) * i.  checks: the build has debug assertions, and
\* the debug_assert of jl_fielddesc_size panics for a flag above 2.
jl_field_isptr(ly, i, checks) ==
    IF checks /\ ly.flag > 2 THEN Panic
    ELSE Value(read(ly.mem, jl_fielddesc_size(ly.flag) * i, 1) % 2)

\* jl_ptr_offset(st, i): the read of a u8, u16 or u32 at .byte_add(i) from
\* jl_dt_layout_ptrs(ly).  A read at an address that is not a multiple of
\* the width panics in a build with debug assertions and reads the bytes in
\* one without.
jl_ptr_offset(ly, i, checks) ==
    LET ptrs == jl_dt_layout_ptrs(ly)
        at == ptrs + i
        load(w) == IF checks /\ at % w # 0 THEN Panic
                                           ELSE Value(read(ly.mem, at, w))
    IN IF checks /\ ly.flag > 2 THEN Panic
       ELSE CASE ly.flag = 0 -> load(1)
              [] ly.flag = 1 -> load(2)
              [] ly.flag = 2 -> load(4)
              [] OTHER -> Panic

LayoutOp(op, flag, nf, i, v, checks, r) ==
    /\ Running
    /\ ret' = [NoRet EXCEPT !.op = op, !.flag = flag, !.nf = nf, !.i = i,
                            !.variant = v, !.checks = checks,
                            !.res = r.res, !.out = r.out]
    /\ UNCHANGED <<wrappers, lowlevel>>

FieldOffsetOf(flag, nf, i, v) ==
    LayoutOp("jl_field_offset", flag, nf, i, v, FALSE,
             jl_field_offset(Layout(flag, nf, nf, v), i))
FieldSizeOf(flag, nf, i, v) ==
    LayoutOp("jl_field_size", flag, nf, i, v, FALSE,
             jl_field_size(Layout(flag, nf, nf, v), i))
FieldIsPtrOf(flag, nf, i, v, checks) ==
    LayoutOp("jl_field_isptr", flag, nf, i, v, checks,
             jl_field_isptr(Layout(flag, nf, nf, v), i, checks))
PtrOffsetOf(flag, nf, i, v, checks) ==
    LayoutOp("jl_ptr_offset", flag, nf, i, v, checks,
             jl_ptr_offset(Layout(flag, nf, nf, v), i, checks))

NextLayout ==
    \/ \E flag \in 0..3, nf \in 1..MaxFields, v \in 1..MaxVariant :
           \E i \in 0..(nf - 1) : FieldOffsetOf(flag, nf, i, v)
    \/ \E flag \in 0..3, nf \in 1..MaxFields, v \in 1..MaxVariant :
           \E i \in 0..(nf - 1) : FieldSizeOf(flag, nf, i, v)
    \/ \E flag \in 0..3, nf \in 1..MaxFields, v \in 1..MaxVariant :
           \E i \in 0..(nf - 1), checks \in BOOLEAN :
               FieldIsPtrOf(flag, nf, i, v, checks)
    \/ \E flag \in 0..3, nf \in 1..MaxFields, v \in 1..MaxVariant :
           \E i \in 0..(nf - 1), checks \in BOOLEAN :
               PtrOffsetOf(flag, nf, i, v, checks)

SpecLayout == Init /\ [][NextLayout]_vars

\* ---------------------------------------------------------- GC frame stack
FrameAddrs == 1..MaxFrames

\* __encode_push of JL_GC_PUSH.
encode_push(count) == IF count <= 8 THEN count * 4 + 1 ELSE count * 4

\* JL_GC_PUSH with count arguments: the array [encode, gcstack, args..] is
\* written into the stack slot a and jl_set_pgcstack makes a the gcstack.
JL_GC_PUSH(fr, g, a, count) ==
    [frames |-> [fr EXCEPT ![a] = [nroots |-> encode_push(count), prev |-> g]],
     gcstack |-> a]

\* JL_GC_POP: jl_set_pgcstack((*jl_pgcstack()).prev).
JL_GC_POP(fr, g) == fr[g].prev

\* JL_GC_PUSH!(arg): the repetition of the macro parses for one argument.
\* The array is a temporary of the let statement: its slot a is dead when
\* the statement ends, and is any slot of the stack, one that an earlier
\* frame was put in included.
GcPush(a) ==
    /\ Running
    /\ Len(pushed) < MaxDepth
    /\ LET r == JL_GC_PUSH(frames, gcstack, a, 1)
       IN /\ frames' = r.frames
          /\ gcstack' = r.gcstack
          /\ ret' = [NoRet EXCEPT !.op = "JL_GC_PUSH", !.before = gcstack,
                                  !.arg = a, !.out = r.gcstack, !.n = 1]
    /\ pushed' = Append(pushed, gcstack)
    /\ UNCHANGED <<wrappers, gc_state, heapvars, svec>>

\* JL_GC_POP!() that matches the last push.  The read of prev goes through
\* the gcstack pointer; a null one ends the process.
GcPop ==
    /\ Running
    /\ pushed # <<>>
    /\ IF gcstack = NULL
       THEN /\ ret' = [NoRet EXCEPT !.op = "JL_GC_POP", !.res = "Abort",
                                    !.before = gcstack,
                                    !.old = pushed[Len(pushed)]]
            /\ UNCHANGED gcstack
       ELSE /\ gcstack' = JL_GC_POP(frames, gcstack)
            /\ ret' = [NoRet EXCEPT !.op = "JL_GC_POP", !.before = gcstack,
                                    !.out = JL_GC_POP(frames, gcstack),
                                    !.old = pushed[Len(pushed)]]
    /\ pushed' = SubSeq(pushed, 1, Len(pushed) - 1)
    /\ UNCHANGED <<frames, wrappers, gc_state, heapvars, svec>>

\* The host's code between a push and its pop uses the stack: a local is
\* written into the dead slot a.
StackReuse(a, w) ==
    /\ Running
    /\ frames' = [frames EXCEPT ![a].prev = w]
    /\ ret' = [NoRet EXCEPT !.op = "stack", !.arg = a, !.out = w]
    /\ UNCHANGED <<gcstack, pushed, wrappers, gc_state, heapvars, svec>>

NextFrame ==
    \/ \E a \in FrameAddrs : GcPush(a)
    \/ GcPop
    \/ \E a \in FrameAddrs, w \in FrameAddrs \cup {NULL} : StackReuse(a, w)

SpecFrame == Init /\ [][NextFrame]_vars

\* ------------------------------------------------ locks within an operation
\* The locks an operation takes, in order, as the cells of the handles: a
\* cell of the table, or 0 for a handle the operation makes itself (the
\* symbol, the datatype, the function) or borrows from elsewhere.  A lock of
\* a cell whose guard from an earlier lock is alive does not return: the
\* mutex of std is not reentrant.  The result is the locks that returned.
RECURSIVE locks_in_order(_, _, _)
locks_in_order(cs, held, done) ==
    IF cs = <<>> THEN [res |-> "Done", locks |-> done]
    ELSE IF Head(cs) = 0 THEN locks_in_order(Tail(cs), held, Append(done, 0))
    ELSE IF Head(cs) \in held THEN [res |-> "Blocked", locks |-> done]
    ELSE IF lock(slot[Head(cs)]).res = "Err"
         THEN [res |-> "Done", locks |-> done]
         ELSE locks_in_order(Tail(cs),
                             IF lock(slot[Head(cs)]).guard
                             THEN held \cup {Head(cs)} ELSE held,
                             Append(done, Head(cs)))

\* The handle of the guest's string function that Display makes, and the
\* guest string it returns.
StringObj == BoxAddr(GuestIndex("String"), 0)

\* Display::fmt: jl_get_function (returns fp), jl_catch!, Function::new, the
\* lock of self, Value::new, call1 (returns p, raises fault),
\* String::try_from, write!.  Every failure is fmt::Error.
display(c, e, fp, p, fault) ==
    LET error == [NoOut EXCEPT !.res = "Err", !.err = "fmt::Error"]
        value == new("Value", lock(c).ptr)
        string == call1(new("Function", fp).cell, value.cell, NULL, p, fault)
        text == try_from("String", new("Value", p).cell, NULL, NULL)
    IN IF catch_result(e).res = "Some" THEN [o |-> error, pend |-> NULL]
       ELSE IF new("Function", fp).res = "Err" THEN [o |-> error, pend |-> NULL]
       ELSE IF lock(c).res = "Err" THEN [o |-> error, pend |-> NULL]
       ELSE IF value.res = "Err" THEN [o |-> error, pend |-> NULL]
       ELSE IF string.o.res = "Err" THEN [o |-> error, pend |-> string.pend]
       ELSE IF text.o.res = "Err" THEN [o |-> error, pend |-> text.pend]
       ELSE [o |-> [NoOut EXCEPT !.res = "Ok"], pend |-> text.pend]

\* An operation on handles of the table whose result the caller drops at
\* once: r is what it returns when none of its locks blocks.
Relocking(op, cs, r) ==
    /\ Running
    /\ LET l == locks_in_order(cs, {}, <<>>)
       IN IF l.res = "Blocked"
          THEN /\ ret' = [NoRet EXCEPT !.op = op, !.res = "Blocked",
                                       !.locks = l.locks, !.pre = pending]
               /\ UNCHANGED pending
          ELSE /\ ret' = [NoRet EXCEPT !.op = op, !.res = r.o.res,
                                       !.err = r.o.err, !.ptr = r.o.ptr,
                                       !.locks = l.locks, !.pre = pending]
               /\ pending' = r.pend
    /\ UNCHANGED <<slot, others>>

GetOf(s, name, handler, p, fault) ==
    /\ slot[s].live
    /\ Relocking("get", <<s, 0, s, 0>>,
                 get(slot[s], name, Least(Ptrs), pending, handler, p, fault))

SetOf(s, val, name, handler, fault) ==
    /\ slot[s].live /\ slot[val].live /\ slot[val].ty = "Value"
    /\ Relocking("set", <<s, 0, s, 0, val>>,
                 set(slot[s], name, Least(Ptrs), slot[val], pending, handler,
                     fault))

DisplayOf(s, fp, p, fault) ==
    /\ slot[s].live
    /\ Relocking("fmt", <<s, 0, 0>>, display(slot[s], pending, fp, p, fault))

Call2Of(a1, a2, p, fault) ==
    /\ slot[a1].live /\ slot[a1].ty = "Value"
    /\ slot[a2].live /\ slot[a2].ty = "Value"
    /\ Relocking("call2", <<0, a1, a2>>,
                 call2(AHandle("Function"), slot[a1], slot[a2], pending, p,
                       fault))

Call3Of(a1, a2, a3, p, fault) ==
    /\ slot[a1].live /\ slot[a1].ty = "Value"
    /\ slot[a2].live /\ slot[a2].ty = "Value"
    /\ slot[a3].live /\ slot[a3].ty = "Value"
    /\ Relocking("call3", <<0, a1, a2, a3>>,
                 call3(AHandle("Function"), slot[a1], slot[a2], slot[a3],
                       pending, p, fault))

NextLock ==
    \/ \E ty \in HandleTypes, p \in Ptrs : New(ty, p)
    \/ \E st \in SlotIds : Clone(st)
    \/ \E st \in SlotIds : Drop(st)
    \/ \E e \in ExcObjs : RawCall(e)
    \/ \E st \in SlotIds, name \in AskedNames, handler \in BOOLEAN,
          p \in Ptrs \cup {NULL}, fault \in Faults :
           GetOf(st, name, handler, p, fault)
    \/ \E st \in SlotIds, val \in SlotIds, name \in AskedNames,
          handler \in BOOLEAN, fault \in Faults :
           SetOf(st, val, name, handler, fault)
    \/ \E st \in SlotIds, fp \in {NULL, Least(Ptrs)},
          p \in {NULL, StringObj}, fault \in Faults :
           DisplayOf(st, fp, p, fault)
    \/ \E a1 \in SlotIds, a2 \in SlotIds, p \in Ptrs \cup {NULL},
          fault \in Faults : Call2Of(a1, a2, p, fault)
    \/ \E a1 \in SlotIds, a2 \in SlotIds, a3 \in SlotIds,
          p \in Ptrs \cup {NULL}, fault \in Faults :
           Call3Of(a1, a2, a3, p, fault)

SpecLock == Init /\ [][NextLock]_vars

\* ----------------------------------------------------------- simple vectors
\* The address of the object o (the null pointer for 0), and the eight bytes
\* of a pointer, lowest first.
ObjAddr(o) == o * (256 * TagUnit + TagUnit)
PointerBytesOf(a) == [j \in 0..(PtrBytes - 1) |-> ByteOf(a, j)]

\* jl_svec_len(t).
jl_svec_len(sv) == Len(sv.elems)

\* The bytes from jl_svec_data(t) on: the elements, eight bytes each.
SvecData(sv) ==
    [pos \in 0..(PtrBytes * Len(sv.elems) - 1) |->
        ByteOf(ObjAddr(sv.elems[(pos \div PtrBytes) + 1]), pos % PtrBytes)]

\* jl_svecref(t, i) for i < jl_svec_len(t): the pointer read at
\* jl_svec_data(t).byte_add(i), which AtomicPtr::new wraps and
\* jl_atomic_load_relaxed gives back.  checks: the build has debug
\* assertions, and a read at an address that is not a multiple of eight
\* panics.
jl_svecref(sv, i, checks) ==
    IF checks /\ jl_typetagof(sv.header) # jl_simplevector_tag * TagUnit
    THEN Panic
    ELSE IF checks /\ ~(i < jl_svec_len(sv)) THEN Panic
    ELSE IF checks /\ i % PtrBytes # 0 THEN Panic
    ELSE Value(jl_atomic_load_relaxed(AtomicPtr_new(
                   [j \in 0..(PtrBytes - 1) |-> SvecData(sv)[i + j]])))

\* jl_svecset(t, i, x): the assert on i, the store, jl_gc_wb(t, x); the
\* result is x.  The store is made into the cell
\* AtomicPtr::new(jl_svec_data(t).byte_add(i)), a temporary: elems is the
\* vector afterwards.  h: the header words, the vector's at 0.
jl_svecset(sv, h, i, x, checks) ==
    IF checks /\ jl_typetagof(sv.header) # jl_simplevector_tag * TagUnit
    THEN [res |-> "Panic", out |-> 0, elems |-> sv.elems, calls |-> <<>>]
    ELSE IF ~(i < jl_svec_len(sv))
    THEN [res |-> "Panic", out |-> 0, elems |-> sv.elems, calls |-> <<>>]
    ELSE LET cell == jl_atomic_store(AtomicPtr_new(i), x)
         IN [res |-> "Ok", out |-> x, elems |-> sv.elems,
             calls |-> jl_gc_wb(h, 0, x)]

\* The header words of the objects and of the vector (at 0).
SvecHeaders == [o \in {0} \cup ObjIds |-> IF o = 0 THEN svec.header ELSE hdr[o]]

SvecRef(i, checks) ==
    /\ Running
    /\ i < Len(svec.elems)
    /\ LET r == jl_svecref(svec, i, checks)
       IN ret' = [NoRet EXCEPT !.op = "jl_svecref", !.i = i, !.checks = checks,
                               !.nf = Len(svec.elems), !.res = r.res,
                               !.word = IF r.res = "Ok" THEN r.out ELSE <<>>,
                               !.ev = svec.elems]
    /\ UNCHANGED <<wrappers, lowlevel>>

SvecSet(i, x, checks) ==
    /\ Running
    /\ LET r == jl_svecset(svec, SvecHeaders, i, x, checks)
           q == queued_roots(SvecHeaders, remset, r.calls)
       IN /\ svec' = [header |-> q.hdr[0], elems |-> r.elems]
          /\ hdr' = [o \in ObjIds |-> q.hdr[o]]
          /\ remset' = q.remset
          /\ ret' = [NoRet EXCEPT !.op = "jl_svecset", !.i = i, !.arg = x,
                                  !.checks = checks, !.nf = Len(svec.elems),
                                  !.res = r.res, !.out = r.out,
                                  !.queued = r.calls, !.ev = svec.elems]
    /\ UNCHANGED <<wrappers, gc_state, stackvars>>

\* The runtime makes the vector anew (jl_svec and the like) with the
\* elements es, young or old, in a collection.
RuntimeSvec(es, old) ==
    /\ Running
    /\ svec' = [header |-> jl_simplevector_tag * TagUnit
                              + (IF old THEN 3 ELSE 0),
                elems |-> es]
    /\ remset' = <<>>
    /\ ret' = [NoRet EXCEPT !.op = "jl_svec", !.nf = Len(es)]
    /\ UNCHANGED <<hdr, wrappers, gc_state, stackvars>>

SvecContents ==
    UNION {[1..n -> ObjIds \cup {NULL}] : n \in 1..MaxSvec}

NextSvec ==
    \/ \E i \in 0..(MaxSvec - 1), checks \in BOOLEAN : SvecRef(i, checks)
    \/ \E i \in 0..MaxSvec, x \in ObjIds, checks \in BOOLEAN :
           SvecSet(i, x, checks)
    \/ \E es \in SvecContents, old \in BOOLEAN : RuntimeSvec(es, old)

SpecSvec == Init /\ [][NextSvec]_vars

\* --------------------------------------------------------- type tag claims
\* C25: jl_typetagof clears the low 4 bits of the header word; jl_to_typeof(t)
\* is t itself when t >= (max_tags << 4), and for a small tag below it the
\* table entry of that tag, at the index t / (bytes of an entry), which lies
\* within the table: small tags with different entries decode to different
\* types.
C25_TagDecoding ==
    /\ ret.op = "jl_typetagof" =>
           /\ ret.out % TagUnit = 0
           /\ ret.arg - ret.out \in 0..(TagUnit - 1)
    /\ (ret.op = "jl_to_typeof" /\ ret.arg >= jl_max_tags * TagUnit) =>
           ret.out = ret.arg
    /\ (ret.op = "jl_to_typeof" /\ ret.arg < jl_max_tags * TagUnit) =>
           /\ ret.n = ret.arg \div PtrBytes
           /\ ret.n < SmallTypeofLen
           /\ ret.out = jl_small_typeof[ret.arg \div PtrBytes]
           /\ ret.arg \div TagUnit \in SmallTagged =>
                  ret.out = SmallType(ret.arg \div TagUnit)

\* The part of C25 the code keeps: the tag of a header, the decoding of a
\* type's address to itself, and an index within the table.
C25_PointersAndBounds ==
    /\ ret.op = "jl_typetagof" =>
           /\ ret.out % TagUnit = 0
           /\ ret.arg - ret.out \in 0..(TagUnit - 1)
    /\ (ret.op = "jl_to_typeof" /\ ret.arg >= jl_max_tags * TagUnit) =>
           ret.out = ret.arg
    /\ (ret.op = "jl_to_typeof" /\ ret.arg < jl_max_tags * TagUnit) =>
           ret.n < SmallTypeofLen

\* ----------------------------------------------------- write barrier claims
\* C23: jl_gc_wb(parent, ptr) enqueues parent exactly when parent's GC bits
\* are 3 and ptr's GC bits have the marked bit clear, and never enqueues
\* ptr or anything else; jl_gc_wb_back(ptr) enqueues ptr exactly when its GC
\* bits are 3.
C23_WriteBarrier ==
    /\ ret.op = "jl_gc_wb" =>
           ret.queued = IF ret.pgc = 3 /\ ret.cgc % 2 = 0
                        THEN <<queue_root(ret.parent)>> ELSE <<>>
    /\ ret.op = "jl_gc_wb_back" =>
           ret.queued = IF ret.cgc = 3 THEN <<queue_root(ret.child)>> ELSE <<>>
    /\ (ret.op \in {"jl_gc_wb", "jl_gc_wb_back"} /\ ret.queued # <<>>) =>
           /\ remset # <<>>
           /\ remset[Len(remset)] = ret.queued[1].a

C23_Witness ==
    /\ ret.op = "jl_gc_wb" /\ ret.parent # ret.child
    /\ ret.pgc = 3 /\ ret.cgc = GC_OLD
    /\ ret.queued = <<queue_root(ret.parent)>>

\* C24: jl_gc_multi_wb(parent, ptr) enqueues the pair (parent, ptr) when
\* parent's GC bits are 3, ptr's marked bit is clear and the layout of ptr's
\* type has internal pointers, and enqueues nothing otherwise.
C24_MultiWriteBarrier ==
    ret.op = "jl_gc_multi_wb" =>
        ret.queued = IF ret.pgc = 3 /\ ret.cgc % 2 = 0 /\ ret.np # 0
                     THEN <<queue_multiroot(ret.parent, ret.child)>>
                     ELSE <<>>

\* The part of C24 the code keeps: nothing is enqueued when a condition
\* fails.
C24_NothingOtherwise ==
    (ret.op = "jl_gc_multi_wb"
        /\ ~(ret.pgc = 3 /\ ret.cgc % 2 = 0 /\ ret.np # 0)) =>
        ret.queued = <<>>

\* ------------------------------------------------------------ layout claims
\* C26: for the flags 0, 1 and 2 and every valid index i, jl_field_offset,
\* jl_field_size and jl_field_isptr give the offset, the size and the
\* pointer bit of the i-th field entry, and jl_ptr_offset gives the i-th
\* entry of the array of pointer offsets that follows the field entries;
\* any other flag panics.
C26_LayoutDecoding ==
    /\ (ret.op = "jl_field_offset" /\ ret.flag <= 2) =>
           ret.res = "Ok" /\ ret.out = FieldOffset(ret.flag, ret.i, ret.variant)
    /\ (ret.op = "jl_field_size" /\ ret.flag <= 2) =>
           ret.res = "Ok" /\ ret.out = FieldSize(ret.flag, ret.i, ret.variant)
    /\ (ret.op = "jl_field_isptr" /\ ret.flag <= 2) =>
           ret.res = "Ok" /\ ret.out = FieldIsPtr(ret.i, ret.variant)
    /\ (ret.op = "jl_ptr_offset" /\ ret.flag <= 2) =>
           ret.res = "Ok" /\ ret.out = PtrOffset(ret.flag, ret.i, ret.variant)
    /\ (ret.op \in {"jl_field_offset", "jl_field_size", "jl_field_isptr",
                    "jl_ptr_offset"} /\ ret.flag > 2) => ret.res = "Panic"

\* The part of C26 the code keeps: the three readers of the field entries
\* for the flags 0, 1 and 2, jl_ptr_offset for the flag 0 and for the first
\* entry, and the panic of the functions that match on the flag.
C26_FieldEntries ==
    /\ (ret.op = "jl_field_offset" /\ ret.flag <= 2) =>
           ret.res = "Ok" /\ ret.out = FieldOffset(ret.flag, ret.i, ret.variant)
    /\ (ret.op = "jl_field_size" /\ ret.flag <= 2) =>
           ret.res = "Ok" /\ ret.out = FieldSize(ret.flag, ret.i, ret.variant)
    /\ (ret.op = "jl_field_isptr" /\ ret.flag <= 2) =>
           ret.res = "Ok" /\ ret.out = FieldIsPtr(ret.i, ret.variant)
    /\ (ret.op = "jl_ptr_offset" /\ (ret.flag = 0 \/ ret.i = 0)
           /\ ret.flag <= 2) =>
           ret.res = "Ok" /\ ret.out = PtrOffset(ret.flag, ret.i, ret.variant)
    /\ (ret.op \in {"jl_field_offset", "jl_field_size", "jl_ptr_offset"}
           /\ ret.flag > 2) => ret.res = "Panic"

\* ------------------------------------------------------ no partial results
\* C27: a wrapper operation that meets a failure at some step (a lock error,
\* a pending exception, a name that is not a field) returns Err at that step
\* and makes none of its later foreign calls: get and set called with a name
\* that is not a field or with an exception in the slot return Err, and set
\* stores only after a lookup that found the field with the slot clear.
C27_NoPartialResults ==
    ret.op \in {"get", "set"} =>
        /\ (\A i \in 1..Len(FieldNames) : FieldNames[i] # ret.field) =>
               (ret.res = "Err" /\ ret.stores = 0)
        /\ ret.pre # NULL =>
               (ret.res = "Err" /\ ret.err = "UnhandledException"
                   /\ ret.ptr = ret.pre /\ ret.stores = 0)
        /\ ret.stores # 0 =>
               ((\E i \in 1..Len(FieldNames) : FieldNames[i] = ret.field)
                   /\ ret.pre = NULL)

\* The part of C27 the code keeps: an operation that returned an error other
\* than the exception of its last foreign call, or the exception that was in
\* the slot before it, has made no store, and no store is made for a name
\* that is not a field.
C27_ErrBeforeStore ==
    ret.op \in {"get", "set"} =>
        /\ (ret.res = "Err" /\ ret.err # "UnhandledException") => ret.stores = 0
        /\ (ret.res = "Err" /\ ret.err = "UnhandledException"
               /\ ret.ptr = ret.pre) => ret.stores = 0
        /\ ret.stores # 0 =>
               \E i \in 1..Len(FieldNames) : FieldNames[i] = ret.field

\* --------------------------------------------------------- GC frame claims
\* C28: JL_GC_PUSH makes a new frame the task's gcstack, with its prev link
\* the gcstack at the push and its root count encoded as (count << 2) | 1;
\* the matching JL_GC_POP sets gcstack back to that value, so that properly
\* nested pushes and pops leave gcstack as it was before the first push.
C28_FrameStack ==
    /\ ret.op = "JL_GC_PUSH" =>
           /\ gcstack = ret.arg
           /\ frames[gcstack].prev = ret.before
           /\ frames[gcstack].nroots = ret.n * 4 + 1
    /\ ret.op = "JL_GC_POP" => (ret.res # "Abort" /\ gcstack = ret.old)
    /\ (ret.op = "JL_GC_POP" /\ pushed = <<>>) => gcstack = NULL

\* The part of C28 the code keeps: the frame and the gcstack right after the
\* push.
C28_PushLinks ==
    ret.op = "JL_GC_PUSH" =>
        /\ gcstack = ret.arg
        /\ frames[gcstack].prev = ret.before
        /\ frames[gcstack].nroots = ret.n * 4 + 1

\* -------------------------------------------------------------- lock claims
RelockingOps == {"get", "set", "fmt", "call2", "call3"}

\* C29: lock() holds no guard once it has returned, so an operation that
\* locks one handle more than once (get and set, which lock self and lock it
\* again in datatype; Display; call2 and call3 given one Value for several
\* arguments) completes and never blocks on its own earlier lock.
C29_NoSelfBlock ==
    /\ \A st \in LiveSlots : ~lock(slot[st]).guard
    /\ ret.op \in RelockingOps =>
           ret.res \in {"Ok", "Err", "Unwound", "Abort"}

C29_Witness ==
    /\ ret.op = "call3" /\ ret.res = "Ok"
    /\ \E st \in SlotIds : ret.locks = <<0, st, st, st>>

\* ----------------------------------------------------- simple vector claims
\* C30: for a simple vector t of length n and i < n, jl_svecset(t, i, x)
\* writes the element i only, so that jl_svecref(t, i) returns x afterwards
\* and the other elements are as before; jl_svecref(t, i) returns the
\* element i; jl_svecset with i >= n aborts without a write.
C30_SvecAccess ==
    /\ (ret.op = "jl_svecset" /\ ret.i < ret.nf) =>
           /\ ret.res = "Ok"
           /\ svec.elems[ret.i + 1] = ret.arg
           /\ jl_svecref(svec, ret.i, ret.checks)
                  = Value(PointerBytesOf(ObjAddr(ret.arg)))
           /\ \A j \in 0..(ret.nf - 1) : j # ret.i =>
                  jl_svecref(svec, j, ret.checks)
                      = jl_svecref([svec EXCEPT !.elems = ret.ev], j,
                                   ret.checks)
    /\ (ret.op = "jl_svecset" /\ ret.i >= ret.nf) =>
           (ret.res = "Panic" /\ svec.elems = ret.ev)

\* The part of C30 the code keeps: jl_svecset returns x and leaves the other
\* elements alone, panics without a write for i >= n, and jl_svecref reads
\* the element 0.
C30_OtherElements ==
    /\ (ret.op = "jl_svecset" /\ ret.i < ret.nf) =>
           /\ ret.res = "Ok" /\ ret.out = ret.arg
           /\ \A j \in 1..ret.nf : j # ret.i + 1 => svec.elems[j] = ret.ev[j]
    /\ (ret.op = "jl_svecset" /\ ret.i >= ret.nf) =>
           (ret.res = "Panic" /\ svec.elems = ret.ev)
    /\ (ret.op = "jl_svecref" /\ ret.i = 0) =>
           /\ ret.res = "Ok"
           /\ ret.word = PointerBytesOf(ObjAddr(svec.elems[1]))

====
